---- MODULE Spec2Model ----
(***************************************************************************)
(* Model of the repository synchronization and caching engine of           *)
(* github-repos-management: the in-memory Cache (the store), the           *)
(* Service's syncStatus map (the sync tracker), the background sync cycle  *)
(* (Service.syncRepository and its two stages) and the request handlers    *)
(* that dispatch it.                                                       *)
(*                                                                         *)
(* Go maps are functions whose DOMAIN is the set of present keys.  Go      *)
(* strings that the code formats or inspects are sequences of tokens, so   *)
(* that formatting (Sprintf) and inspection (HasPrefix) are computed.      *)
(* *models.Repository values are pointers into `heap`, because the sync    *)
(* cycle writes LastSyncedAt through the pointer it got from the store.    *)
(***************************************************************************)
EXTENDS Integers, Sequences, FiniteSets, TLC

VARIABLES
    repositories,   \* Cache.repositories: fullName -> pointer into heap
    heap,           \* the *models.Repository objects allocated so far
    pullRequests,   \* Cache.pullRequests: fullName -> number -> record
    issues,         \* Cache.issues: fullName -> number -> record
    labels,         \* Cache.labels: the names of the label definitions
    prLabels,       \* Cache.prLabels: fullName -> number -> set of names
    issueLabels,    \* Cache.issueLabels: fullName -> number -> set of names
    mu,             \* Cache.mu: [w |-> the writer or 0, r |-> the readers]
    syncStatus,     \* Service.syncStatus: fullName -> status string
    syncMutex,      \* Service.syncMutex: 0 when free, else the holder
    clock,          \* what time.Now() returns
    cyc,            \* the sync cycles (goroutines), by dispatch order
    gs,             \* the GetStatus request: position, locals, last result
    call,           \* the last call of a direct client of the Cache
    qry,            \* the ListPullRequests / ListIssues request of the Service
    fdb,            \* the file-backed DB: its maps and its lists of numbers
    adds            \* the Service.AddRepository requests, by caller

vars == <<repositories, heap, pullRequests, issues, labels, prLabels,
          issueLabels, mu, syncStatus, syncMutex, clock, cyc, gs, call, qry, fdb, adds>>

storeVars == <<repositories, heap, pullRequests, issues, labels, prLabels,
               issueLabels>>

----------------------------------------------------------------------------
\* Bounds of the model.

\* sync cycles dispatched in one behaviour
MaxCycles == 2
\* largest pull-request / issue number the external source reports
MaxNumber == 1
\* longest list one fetch returns
MaxFetch == 1
\* most labels one fetched item carries
MaxLabels == 1
\* repository objects allocated in one behaviour
MaxObjs == 2
\* the pages and page sizes a listing is asked for
MaxPage == 2
MaxPerPage == 2
\* longest list of numbers the file-backed DB keeps for one repository
MaxListed == 2
\* concurrent requests to Service.AddRepository
MaxCallers == 2
MaxStr == 5

Owners == {"acme"}
Names == {"widgets", "gadgets"}
LabelNames == {"bug"}
Cycles == 1..MaxCycles
AddCallers == 1..MaxCallers
Numbers == 1..MaxNumber

----------------------------------------------------------------------------
\* Strings and maps.

\* fmt.Sprintf("%s/%s", owner, name)
FullNameOf(owner, name) == <<owner, "/", name>>

RepoKeys == {FullNameOf(o, n) : o \in Owners, n \in Names}

\* strings.HasPrefix(s, prefix) on token sequences
HasPrefix(s, prefix) ==
    /\ Len(s) >= Len(prefix)
    /\ \A k \in 1..Len(prefix) : s[k] = prefix[k]

StrSyncing == <<"s", "y", "n", "c", "i", "n", "g">>
StrError == <<"e", "r", "r", "o", "r">>
\* fmt.Sprintf("error: %v", err)
StatusRepoError(err) == StrError \o <<":", " ", err>>
\* fmt.Sprintf("error syncing pull requests: %v", err)
StatusPRError(err) == StrError \o <<" ", "syncing pull requests", ":", " ", err>>
\* fmt.Sprintf("error syncing issues: %v", err)
StatusIssueError(err) == StrError \o <<" ", "syncing issues", ":", " ", err>>

EmptyMap == [k \in {} |-> 0]
MapPut(m, k, v) == [x \in (DOMAIN m) \cup {k} |-> IF x = k THEN v ELSE m[x]]
MapDelete(m, k) == [x \in (DOMAIN m) \ {k} |-> m[x]]

\* the lock is taken and released inside one store or tracker operation
Unlocked == 0
MuFree == [w |-> Unlocked, r |-> {}]

----------------------------------------------------------------------------
\* The in-memory Cache.  Each operation returns its error ("" for nil) and
\* the new value of every collection it writes.

ErrNone == ""

\* were owner and name taken in the wrong order for the key
CacheGetRepositorySwapped(owner, name) ==
    LET fullName == FullNameOf(name, owner) IN
    IF fullName \notin DOMAIN repositories
    THEN [err |-> "repository not found", repo |-> 0]
    ELSE [err |-> ErrNone, repo |-> repositories[fullName]]

CacheGetRepository(owner, name) ==
    LET fullName == FullNameOf(owner, name) IN
    IF fullName \notin DOMAIN repositories
    THEN [err |-> "repository not found", repo |-> 0]
    ELSE [err |-> ErrNone, repo |-> repositories[fullName]]

\* were a repository added without the check for its key
CacheAddRepositoryUnchecked(repo, rec) ==
    LET fullName == FullNameOf(rec.Owner, rec.Name)
        init(m) == IF fullName \in DOMAIN m THEN m ELSE MapPut(m, fullName, EmptyMap)
    IN [err |-> ErrNone,
        repositories |-> MapPut(repositories, fullName, repo),
        pullRequests |-> init(pullRequests),
        issues |-> init(issues),
        prLabels |-> init(prLabels),
        issueLabels |-> init(issueLabels)]

\* `repo` is the pointer, `rec` the record it points to
CacheAddRepository(repo, rec) ==
    LET fullName == FullNameOf(rec.Owner, rec.Name)
        init(m) == IF fullName \in DOMAIN m THEN m ELSE MapPut(m, fullName, EmptyMap)
        same == [repositories |-> repositories, pullRequests |-> pullRequests,
                 issues |-> issues, prLabels |-> prLabels,
                 issueLabels |-> issueLabels]
    IN
    IF fullName \in DOMAIN repositories
    THEN [err |-> "repository already exists"] @@ same
    ELSE [err |-> ErrNone,
          repositories |-> MapPut(repositories, fullName, repo),
          pullRequests |-> init(pullRequests),
          issues |-> init(issues),
          prLabels |-> init(prLabels),
          issueLabels |-> init(issueLabels)]

CacheUpdateRepository(repo) ==
    LET fullName == FullNameOf(heap[repo].Owner, heap[repo].Name) IN
    IF fullName \notin DOMAIN repositories
    THEN [err |-> "repository not found", repositories |-> repositories]
    ELSE [err |-> ErrNone, repositories |-> MapPut(repositories, fullName, repo)]

\* were the label links of a deleted repository left behind
CacheDeleteRepositoryKeepLinks(owner, name) ==
    LET fullName == FullNameOf(owner, name) IN
    IF fullName \notin DOMAIN repositories
    THEN [err |-> "repository not found",
          repositories |-> repositories, pullRequests |-> pullRequests,
          issues |-> issues, prLabels |-> prLabels,
          issueLabels |-> issueLabels]
    ELSE [err |-> ErrNone,
          repositories |-> MapDelete(repositories, fullName),
          pullRequests |-> MapDelete(pullRequests, fullName),
          issues |-> MapDelete(issues, fullName),
          prLabels |-> prLabels,
          issueLabels |-> issueLabels]

CacheDeleteRepository(owner, name) ==
    LET fullName == FullNameOf(owner, name) IN
    IF fullName \notin DOMAIN repositories
    THEN [err |-> "repository not found",
          repositories |-> repositories, pullRequests |-> pullRequests,
          issues |-> issues, prLabels |-> prLabels,
          issueLabels |-> issueLabels]
    ELSE [err |-> ErrNone,
          repositories |-> MapDelete(repositories, fullName),
          pullRequests |-> MapDelete(pullRequests, fullName),
          issues |-> MapDelete(issues, fullName),
          prLabels |-> MapDelete(prLabels, fullName),
          issueLabels |-> MapDelete(issueLabels, fullName)]

\* the pointers of all repositories and the total (page 1, perPage 1000)
CacheListRepositories ==
    [repos |-> {repositories[k] : k \in DOMAIN repositories},
     total |-> Cardinality(DOMAIN repositories)]

\* were an item added without the check for its repository
CacheAddItemUntracked(items, it) ==
    LET fn == it.RepositoryFullName
        m == IF fn \in DOMAIN items THEN items[fn] ELSE EmptyMap
    IN
    IF it.Number \in DOMAIN m
    THEN [err |-> "already exists", items |-> MapPut(items, fn, m)]
    ELSE [err |-> ErrNone, items |-> MapPut(items, fn, MapPut(m, it.Number, it))]

\* Add/Get/Update of a pull request or an issue: `items` is the collection
\* (pullRequests or issues), `it` the record to store.
CacheAddItem(items, it) ==
    LET fn == it.RepositoryFullName
        m == IF fn \in DOMAIN items THEN items[fn] ELSE EmptyMap
    IN
    IF fn \notin DOMAIN repositories
    THEN [err |-> "repository not found", items |-> items]
    ELSE IF it.Number \in DOMAIN m
    THEN [err |-> "already exists", items |-> MapPut(items, fn, m)]
    ELSE [err |-> ErrNone, items |-> MapPut(items, fn, MapPut(m, it.Number, it))]

CacheGetItem(items, repoFullName, number) ==
    IF repoFullName \notin DOMAIN repositories THEN "repository not found"
    ELSE IF repoFullName \notin DOMAIN items THEN "none found for repository"
    ELSE IF number \notin DOMAIN items[repoFullName] THEN "not found"
    ELSE ErrNone

\* were an update of an absent item an insert
CacheUpdateItemOrInsert(items, it) ==
    LET fn == it.RepositoryFullName
        m == IF fn \in DOMAIN items THEN items[fn] ELSE EmptyMap
    IN
    IF fn \notin DOMAIN repositories
    THEN [err |-> "repository not found", items |-> items]
    ELSE [err |-> ErrNone, items |-> MapPut(items, fn, MapPut(m, it.Number, it))]

CacheUpdateItem(items, it) ==
    LET fn == it.RepositoryFullName IN
    IF fn \notin DOMAIN repositories
    THEN [err |-> "repository not found", items |-> items]
    ELSE IF fn \notin DOMAIN items
    THEN [err |-> "none found for repository", items |-> items]
    ELSE IF it.Number \notin DOMAIN items[fn]
    THEN [err |-> "not found", items |-> items]
    ELSE [err |-> ErrNone,
          items |-> MapPut(items, fn, MapPut(items[fn], it.Number, it))]

CacheAddPullRequest(pr) == CacheAddItem(pullRequests, pr)
CacheGetPullRequest(repoFullName, number) ==
    CacheGetItem(pullRequests, repoFullName, number)

\* were an update of a stored pull request dropped
CacheUpdatePullRequestDropped(pr) == [err |-> ErrNone, items |-> pullRequests]

CacheUpdatePullRequest(pr) == CacheUpdateItem(pullRequests, pr)

CacheAddIssue(issue) == CacheAddItem(issues, issue)
CacheGetIssue(repoFullName, number) == CacheGetItem(issues, repoFullName, number)
CacheUpdateIssue(issue) == CacheUpdateItem(issues, issue)

CacheGetLabel(name) ==
    IF name \in labels THEN ErrNone ELSE "label not found"

CacheAddLabel(name) ==
    IF name \in labels
    THEN [err |-> "label already exists", labels |-> labels]
    ELSE [err |-> ErrNone, labels |-> labels \cup {name}]

\* were the attachment of a label that is attached already an error
CacheAddItemLabelOnce(items, links, repoFullName, number, labelName) ==
    LET m == IF repoFullName \in DOMAIN links THEN links[repoFullName] ELSE EmptyMap
        s == IF number \in DOMAIN m THEN m[number] ELSE {}
    IN
    IF repoFullName \notin DOMAIN repositories
    THEN [err |-> "repository not found", links |-> links]
    ELSE IF repoFullName \notin DOMAIN items
    THEN [err |-> "none found for repository", links |-> links]
    ELSE IF number \notin DOMAIN items[repoFullName]
    THEN [err |-> "not found", links |-> links]
    ELSE IF labelName \notin labels
    THEN [err |-> "label not found", links |-> links]
    ELSE IF labelName \in s
    THEN [err |-> "already exists", links |-> links]
    ELSE [err |-> ErrNone,
          links |-> MapPut(links, repoFullName,
                           MapPut(m, number, s \cup {labelName}))]

\* AddPullRequestLabel / AddIssueLabel: `items` is the item collection,
\* `links` the association collection (prLabels or issueLabels).
CacheAddItemLabel(items, links, repoFullName, number, labelName) ==
    LET m == IF repoFullName \in DOMAIN links THEN links[repoFullName] ELSE EmptyMap
        s == IF number \in DOMAIN m THEN m[number] ELSE {}
    IN
    IF repoFullName \notin DOMAIN repositories
    THEN [err |-> "repository not found", links |-> links]
    ELSE IF repoFullName \notin DOMAIN items
    THEN [err |-> "none found for repository", links |-> links]
    ELSE IF number \notin DOMAIN items[repoFullName]
    THEN [err |-> "not found", links |-> links]
    ELSE IF labelName \notin labels
    THEN [err |-> "label not found", links |-> links]
    ELSE [err |-> ErrNone,
          links |-> MapPut(links, repoFullName,
                           MapPut(m, number, s \cup {labelName}))]

CacheAddPullRequestLabel(repoFullName, prNumber, labelName) ==
    CacheAddItemLabel(pullRequests, prLabels, repoFullName, prNumber, labelName)
CacheAddIssueLabel(repoFullName, issueNumber, labelName) ==
    CacheAddItemLabel(issues, issueLabels, repoFullName, issueNumber, labelName)

\* were the label links of a deleted item left behind
CacheDeleteItemKeepLinks(items, links, repoFullName, number) ==
    IF repoFullName \notin DOMAIN repositories
    THEN [err |-> "repository not found", items |-> items, links |-> links]
    ELSE IF repoFullName \notin DOMAIN items
    THEN [err |-> "none found for repository", items |-> items, links |-> links]
    ELSE IF number \notin DOMAIN items[repoFullName]
    THEN [err |-> "not found", items |-> items, links |-> links]
    ELSE [err |-> ErrNone,
          items |-> MapPut(items, repoFullName,
                           MapDelete(items[repoFullName], number)),
          links |-> links]

\* DeletePullRequest / DeleteIssue: the item goes, and with it the entry of its
\* number in the association collection of the repository
CacheDeleteItem(items, links, repoFullName, number) ==
    IF repoFullName \notin DOMAIN repositories
    THEN [err |-> "repository not found", items |-> items, links |-> links]
    ELSE IF repoFullName \notin DOMAIN items
    THEN [err |-> "none found for repository", items |-> items, links |-> links]
    ELSE IF number \notin DOMAIN items[repoFullName]
    THEN [err |-> "not found", items |-> items, links |-> links]
    ELSE [err |-> ErrNone,
          items |-> MapPut(items, repoFullName,
                           MapDelete(items[repoFullName], number)),
          links |-> IF repoFullName \in DOMAIN links
                    THEN MapPut(links, repoFullName,
                                MapDelete(links[repoFullName], number))
                    ELSE links]

CacheDeletePullRequest(repoFullName, number) ==
    CacheDeleteItem(pullRequests, prLabels, repoFullName, number)
CacheDeleteIssue(repoFullName, number) ==
    CacheDeleteItem(issues, issueLabels, repoFullName, number)

\* the orders in which `for ... range` may visit the keys of a map
RangeOrders(m) ==
    {o \in [1..Cardinality(DOMAIN m) -> DOMAIN m] :
        \A a, b \in DOMAIN o : a # b => o[a] # o[b]}

\* the slice s[start:end] of Go (indices from 0, end excluded)
Slice(s, start, end) == SubSeq(s, start + 1, end)

\* were the total of a listing counted on the page that is returned
CacheListItemsPageTotal(items, repoFullName, page, perPage, order) ==
    IF repoFullName \notin DOMAIN repositories
    THEN [err |-> "repository not found", items |-> <<>>, total |-> 0]
    ELSE IF repoFullName \notin DOMAIN items
    THEN [err |-> ErrNone, items |-> <<>>, total |-> 0]
    ELSE LET repoMap == items[repoFullName]
             all == [x \in DOMAIN order |-> repoMap[order[x]]]
             start == (page - 1) * perPage
             end == IF start + perPage > Len(all) THEN Len(all)
                    ELSE start + perPage
             out == IF start >= Len(all) THEN <<>> ELSE Slice(all, start, end)
         IN [err |-> ErrNone, items |-> out, total |-> Len(out)]

\* were the repository not looked up before its items are listed
CacheListItemsOfAny(items, repoFullName, page, perPage, order) ==
    IF repoFullName \notin DOMAIN items
    THEN [err |-> ErrNone, items |-> <<>>, total |-> 0]
    ELSE LET repoMap == items[repoFullName]
             total == Cardinality(DOMAIN repoMap)
             all == [x \in DOMAIN order |-> repoMap[order[x]]]
             start == (page - 1) * perPage
             end == IF start + perPage > total THEN total ELSE start + perPage
         IN IF start >= total
            THEN [err |-> ErrNone, items |-> <<>>, total |-> total]
            ELSE [err |-> ErrNone, items |-> Slice(all, start, end),
                  total |-> total]

\* ListPullRequests / ListIssues: `order` is the order in which the map of
\* the repository is visited
CacheListItems(items, repoFullName, page, perPage, order) ==
    IF repoFullName \notin DOMAIN repositories
    THEN [err |-> "repository not found", items |-> <<>>, total |-> 0]
    ELSE IF repoFullName \notin DOMAIN items
    THEN [err |-> ErrNone, items |-> <<>>, total |-> 0]
    ELSE LET repoMap == items[repoFullName]
             total == Cardinality(DOMAIN repoMap)
             all == [x \in DOMAIN order |-> repoMap[order[x]]]
             start == (page - 1) * perPage
             end == IF start + perPage > total THEN total ELSE start + perPage
         IN IF start >= total
            THEN [err |-> ErrNone, items |-> <<>>, total |-> total]
            ELSE [err |-> ErrNone, items |-> Slice(all, start, end),
                  total |-> total]

CacheListPullRequests(repoFullName, page, perPage, order) ==
    CacheListItems(pullRequests, repoFullName, page, perPage, order)
CacheListIssues(repoFullName, page, perPage, order) ==
    CacheListItems(issues, repoFullName, page, perPage, order)

\* Cache.ListRepositories(page, perPage): the pointers of one page, in the
\* order in which `range` visited c.repositories
CacheListRepositoriesPage(page, perPage, order) ==
    LET total == Cardinality(DOMAIN repositories)
        repos == [x \in DOMAIN order |-> repositories[order[x]]]
        start == (page - 1) * perPage
        end == IF start + perPage > total THEN total ELSE start + perPage
    IN IF total = 0
       THEN [err |-> ErrNone, repos |-> <<>>, total |-> 0]
       ELSE IF start >= total
       THEN [err |-> ErrNone, repos |-> <<>>, total |-> total]
       ELSE [err |-> ErrNone, repos |-> Slice(repos, start, end),
             total |-> total]

\* the orders a listing of the repository may use
ListOrders(items, repoFullName) ==
    IF repoFullName \in DOMAIN items THEN RangeOrders(items[repoFullName])
    ELSE {<<>>}

\* DeleteLabel on one association collection: the name leaves every set, a
\* number whose set is empty leaves its repository, a repository left without
\* numbers leaves the collection
CacheStripLabel(links, name) ==
    LET strip(m) == [n \in {x \in DOMAIN m : m[x] \ {name} # {}} |->
                        m[n] \ {name}]
    IN [k \in {x \in DOMAIN links : DOMAIN strip(links[x]) # {}} |->
           strip(links[k])]

CacheDeleteLabel(name) ==
    IF name \notin labels
    THEN [err |-> "label not found", labels |-> labels,
          prLabels |-> prLabels, issueLabels |-> issueLabels]
    ELSE [err |-> ErrNone, labels |-> labels \ {name},
          prLabels |-> CacheStripLabel(prLabels, name),
          issueLabels |-> CacheStripLabel(issueLabels, name)]

\* RemovePullRequestLabel / RemoveIssueLabel
CacheRemoveItemLabel(items, links, repoFullName, number, labelName) ==
    IF repoFullName \notin DOMAIN repositories
    THEN [err |-> "repository not found", links |-> links]
    ELSE IF repoFullName \notin DOMAIN items
    THEN [err |-> "none found for repository", links |-> links]
    ELSE IF number \notin DOMAIN items[repoFullName]
    THEN [err |-> "not found", links |-> links]
    ELSE IF labelName \notin labels
    THEN [err |-> "label not found", links |-> links]
    ELSE IF repoFullName \notin DOMAIN links
    THEN [err |-> "no labels found for repository", links |-> links]
    ELSE IF number \notin DOMAIN links[repoFullName]
    THEN [err |-> "no labels found for item", links |-> links]
    ELSE LET s == links[repoFullName][number] \ {labelName}
             m == IF s = {} THEN MapDelete(links[repoFullName], number)
                  ELSE MapPut(links[repoFullName], number, s)
         IN [err |-> ErrNone,
             links |-> IF DOMAIN m = {} THEN MapDelete(links, repoFullName)
                       ELSE MapPut(links, repoFullName, m)]

CacheRemovePullRequestLabel(repoFullName, prNumber, labelName) ==
    CacheRemoveItemLabel(pullRequests, prLabels, repoFullName, prNumber, labelName)
CacheRemoveIssueLabel(repoFullName, issueNumber, labelName) ==
    CacheRemoveItemLabel(issues, issueLabels, repoFullName, issueNumber, labelName)

\* ListPullRequestLabels / ListIssueLabels: the names of the labels returned
CacheListItemLabels(items, links, repoFullName, number) ==
    IF repoFullName \notin DOMAIN repositories
    THEN [err |-> "repository not found", labels |-> {}]
    ELSE IF repoFullName \notin DOMAIN items
    THEN [err |-> "none found for repository", labels |-> {}]
    ELSE IF number \notin DOMAIN items[repoFullName]
    THEN [err |-> "not found", labels |-> {}]
    ELSE IF repoFullName \notin DOMAIN links
    THEN [err |-> ErrNone, labels |-> {}]
    ELSE IF number \notin DOMAIN links[repoFullName]
    THEN [err |-> ErrNone, labels |-> {}]
    ELSE [err |-> ErrNone, labels |-> links[repoFullName][number] \cap labels]

CacheListPullRequestLabels(repoFullName, prNumber) ==
    CacheListItemLabels(pullRequests, prLabels, repoFullName, prNumber)
CacheListIssueLabels(repoFullName, issueNumber) ==
    CacheListItemLabels(issues, issueLabels, repoFullName, issueNumber)

----------------------------------------------------------------------------
\* The file-backed DB (type DB).  Every operation runs under db.Lock or
\* db.RLock from its first line to its last and ends with db.sync(), which
\* writes the maps to the file; the write is taken to succeed.  The label
\* maps are left out: no operation on repositories, pull requests or issues
\* reads them.

\* NewDB on a path without a file
NewDB == [repositories |-> EmptyMap, pullRequests |-> EmptyMap,
          issues |-> EmptyMap, repoPRs |-> EmptyMap, repoIssues |-> EmptyMap]

\* `repo` is the pointer, `rec` the record it points to
DBAddRepository(repo, rec) ==
    [err |-> ErrNone,
     db |-> [fdb EXCEPT !.repositories = MapPut(@, rec.FullName, repo)]]

DBUpdateRepository(repo, rec) ==
    IF rec.FullName \notin DOMAIN fdb.repositories
    THEN [err |-> "repository not found", db |-> fdb]
    ELSE [err |-> ErrNone,
          db |-> [fdb EXCEPT !.repositories = MapPut(@, rec.FullName, repo)]]

DBDeleteRepository(owner, name) ==
    LET fullName == FullNameOf(owner, name) IN
    IF fullName \notin DOMAIN fdb.repositories
    THEN [err |-> "repository not found", db |-> fdb]
    ELSE [err |-> ErrNone,
          db |-> [repositories |-> MapDelete(fdb.repositories, fullName),
                  pullRequests |-> MapDelete(fdb.pullRequests, fullName),
                  issues |-> MapDelete(fdb.issues, fullName),
                  repoPRs |-> MapDelete(fdb.repoPRs, fullName),
                  repoIssues |-> MapDelete(fdb.repoIssues, fullName)]]

\* DB.ListRepositories: `order` is the order in which `range` visits
\* db.repositories
DBListRepositories(page, perPage, order) ==
    LET repos == [x \in DOMAIN order |-> fdb.repositories[order[x]]]
        total == Len(repos)
        offset == (page - 1) * perPage
        end == IF offset + perPage > total THEN total ELSE offset + perPage
    IN IF offset >= total
       THEN [err |-> ErrNone, repos |-> <<>>, total |-> total]
       ELSE [err |-> ErrNone, repos |-> Slice(repos, offset, end),
             total |-> total]

\* AddPullRequest / AddIssue: `items` is db.pullRequests or db.issues,
\* `numbers` db.repoPRs or db.repoIssues, `it` the record to store
DBAddItem(items, numbers, it) ==
    LET fn == it.RepositoryFullName
        m == IF fn \in DOMAIN items THEN items[fn] ELSE EmptyMap
        l == IF fn \in DOMAIN numbers THEN numbers[fn] ELSE <<>>
    IN [err |-> ErrNone,
        items |-> MapPut(items, fn, MapPut(m, it.Number, it)),
        numbers |-> MapPut(numbers, fn, Append(l, it.Number))]

\* UpdatePullRequest / UpdateIssue reuse the add method
DBUpdateItem(items, numbers, it) == DBAddItem(items, numbers, it)

\* the list without its first element equal to number
RECURSIVE RemoveFirst(_, _)
RemoveFirst(l, number) ==
    IF l = <<>> THEN <<>>
    ELSE IF Head(l) = number THEN Tail(l)
    ELSE <<Head(l)>> \o RemoveFirst(Tail(l), number)

DBDeleteItem(items, numbers, repoFullName, number) ==
    IF repoFullName \notin DOMAIN items
    THEN [err |-> "not found", items |-> items, numbers |-> numbers]
    ELSE IF number \notin DOMAIN items[repoFullName]
    THEN [err |-> "not found", items |-> items, numbers |-> numbers]
    ELSE [err |-> ErrNone,
          items |-> MapPut(items, repoFullName,
                           MapDelete(items[repoFullName], number)),
          numbers |-> IF repoFullName \in DOMAIN numbers
                      THEN MapPut(numbers, repoFullName,
                                  RemoveFirst(numbers[repoFullName], number))
                      ELSE numbers]

\* the records of the numbers that the map still holds, in the order of l
RECURSIVE Found(_, _)
Found(m, l) ==
    IF l = <<>> THEN <<>>
    ELSE (IF Head(l) \in DOMAIN m THEN <<m[Head(l)]>> ELSE <<>>)
         \o Found(m, Tail(l))

\* ListPullRequests / ListIssues
DBListItems(items, numbers, repoFullName, page, perPage) ==
    IF repoFullName \notin DOMAIN numbers
    THEN [err |-> ErrNone, items |-> <<>>, total |-> 0]
    ELSE LET l == numbers[repoFullName]
             total == Len(l)
             offset == (page - 1) * perPage
             end == IF offset + perPage > total THEN total
                    ELSE offset + perPage
             m == IF repoFullName \in DOMAIN items THEN items[repoFullName]
                  ELSE EmptyMap
         IN IF offset >= total
            THEN [err |-> ErrNone, items |-> <<>>, total |-> total]
            ELSE [err |-> ErrNone, items |-> Found(m, Slice(l, offset, end)),
                  total |-> total]

\* no call of a direct client yet
NoCall == [op |-> "none", err |-> ErrNone, same |-> TRUE, repo |-> 0]

----------------------------------------------------------------------------
\* The external source (github.ClientInterface).  What a call returns is
\* chosen by the environment when the call returns.

GhLabelSeqs ==
    {s \in UNION {[1..n -> LabelNames] : n \in 0..MaxLabels} :
        \A a, b \in 1..Len(s) : a # b => s[a] # s[b]}

\* github.PullRequest: open, or closed with a merged timestamp
GhPullRequests ==
    {p \in [Number : Numbers, State : {"open", "closed"},
            MergedAt : {"nil", "set"}, Labels : GhLabelSeqs] :
        p.State = "open" <=> p.MergedAt = "nil"}

\* github.Issue
GhIssues == [Number : Numbers, State : {"open", "closed"}, Labels : GhLabelSeqs]

\* one page of results: no number twice
GhLists(S) ==
    {s \in UNION {[1..n -> S] : n \in 0..MaxFetch} :
        \A a, b \in 1..Len(s) : a # b => s[a].Number # s[b].Number}

\* github.Repository as returned for (owner, name)
GhRepository(owner, name) ==
    [Owner |-> owner, Name |-> name, FullName |-> FullNameOf(owner, name),
     Description |-> ""]

\* the repository with the description it has when it is fetched
GhDescribed(owner, name, description) ==
    [GhRepository(owner, name) EXCEPT !.Description = description]

----------------------------------------------------------------------------
\* The sync cycle: Service.syncRepository, run in its own goroutine.

\* models.PullRequest built from a fetched github.PullRequest
PullRequestModel(repoFullName, ghPR) ==
    [RepositoryFullName |-> repoFullName, Number |-> ghPR.Number,
     State |-> ghPR.State, MergedAt |-> ghPR.MergedAt]

\* models.Issue built from a fetched github.Issue
IssueModel(repoFullName, ghIssue) ==
    [RepositoryFullName |-> repoFullName, Number |-> ghIssue.Number,
     State |-> ghIssue.State]

NoCycle ==
    [pc |-> "unused", owner |-> "", name |-> "", repo |-> 0, fullName |-> <<>>,
     prs |-> <<>>, issues |-> <<>>, i |-> 0, j |-> 0, err |-> ErrNone,
     seenPRs |-> <<>>, seenIssues |-> <<>>, prErr |-> ErrNone,
     prDone |-> FALSE, issDone |-> FALSE,
     outcome |-> "", result |-> "", cancelled |-> FALSE,
     start |-> 0, startLS |-> 0, overlapped |-> FALSE, marked |-> FALSE,
     wrotePR |-> FALSE, fetchedIssues |-> FALSE, wroteIssues |-> FALSE,
     stamped |-> FALSE, skipped |-> {}]

InFlightPcs ==
    {"dispatched", "getRepo", "errRepo", "prGetRepo", "prFetching", "prGet",
     "prUpdate", "prAdd", "prLabel", "prAddLabel", "prAttach", "errPR",
     "issGetRepo", "issFetching", "issGet", "issUpdate", "issAdd", "issLabel",
     "issAddLabel", "issAttach", "errIss", "stamp", "update", "deferred"}

InFlight(t) == cyc[t].pc \in InFlightPcs
KeyOf(t) == FullNameOf(cyc[t].owner, cyc[t].name)
Dispatched == {t \in Cycles : cyc[t].pc # "unused"}

PRLoopPcs == {"prGet", "prUpdate", "prAdd", "prLabel", "prAddLabel", "prAttach"}
IssLoopPcs == {"issGet", "issUpdate", "issAdd", "issLabel", "issAddLabel", "issAttach"}

\* where the failures a stage has skipped are remembered: in its loop and at
\* the step after its return
SkippedScope(stage) ==
    IF stage = "pr" THEN PRLoopPcs \cup {"issGetRepo"}
    ELSE IssLoopPcs \cup {"stamp"}

\* the failure of the store operation on label j of item i (j = 0: on the
\* item itself) is skipped
Skip(c, stage, err) ==
    [skipped |-> IF err # ErrNone THEN c.skipped \cup {<<stage, c.i, c.j>>}
                 ELSE c.skipped]

\* The locals of a stage go out of scope when it returns.  What is recorded
\* about the cycle for the properties (the pages it fetched, the
\* LastSyncedAt it found) is kept only while it has run alone.
Scope(c) ==
    [c EXCEPT !.prs = IF c.pc \in PRLoopPcs THEN @ ELSE <<>>,
              !.issues = IF c.pc \in IssLoopPcs THEN @ ELSE <<>>,
              !.seenPRs = IF c.overlapped THEN <<>> ELSE @,
              !.seenIssues = IF c.overlapped THEN <<>> ELSE @,
              !.startLS = IF c.overlapped THEN 0 ELSE @,
              !.skipped = {e \in @ : c.pc \in SkippedScope(e[1])}]

\* cyc with the fields of cycle t in `f` replaced
Set(t, f) == [cyc EXCEPT ![t] = Scope(f @@ @)]

\* were the context of the triggering request handed to the cycle
SyncContextOfRequest(t) == "request"

\* the context handed to syncRepository
SyncContext(t) == "background"
\* ctx.Done() of that context: a request's context ends when it is cancelled
ContextDone(t) == SyncContext(t) = "request" /\ cyc[t].cancelled

\* were the cycle's error handed to the caller of the triggering request
CallerResultOfCycle(t, err) == IF err = ErrNone THEN cyc[t].result ELSE err

\* what the caller of the triggering request gets of the cycle's error: the
\* goroutine only logs it
CallerResult(t, err) == cyc[t].result

\* where the loop of a stage goes after label j of item i / after item i
StageDone(stage) ==
    IF stage = "pr" THEN [prDone |-> TRUE] ELSE [issDone |-> TRUE]

AfterItem(stage, items, i, stageEnd) ==
    IF i + 1 <= Len(items)
    THEN [pc |-> stage \o "Get", i |-> i + 1, j |-> 0]
    ELSE [pc |-> stageEnd, i |-> 0, j |-> 0] @@ StageDone(stage)

AfterLabel(stage, items, i, j, stageEnd) ==
    IF j + 1 <= Len(items[i].Labels)
    THEN [pc |-> stage \o "Label", i |-> i, j |-> j + 1]
    ELSE AfterItem(stage, items, i, stageEnd)

AfterUpsert(stage, items, i, stageEnd) == AfterLabel(stage, items, i, 0, stageEnd)

\* were a failed insert or update returned as the error of the stage
AfterUpsertErrorReturned(stage, items, i, stageEnd) ==
    [pc |-> IF stage = "pr" THEN "errPR" ELSE "errIss",
     err |-> "failed to store item", i |-> 0, j |-> 0]

\* the insert or update of item i failed: `continue`
AfterUpsertError(stage, items, i, stageEnd) == AfterItem(stage, items, i, stageEnd)

AfterFetch(stage, items, stageEnd) == AfterItem(stage, items, 0, stageEnd)

\* were the issue stage skipped
AfterPullRequestsStamp == "stamp"

\* were the error of syncPullRequests dropped
AfterPullRequestsErrorIgnored == "issGetRepo"

\* the step after syncPullRequests returned nil, and after syncIssues did
AfterPullRequests == "issGetRepo"

AfterIssues == "stamp"

\* the step after syncPullRequests returned an error: the status is marked
\* and syncRepository returns
AfterPullRequestsError == "errPR"

\* a step of cycle t: the context it runs under is not done, and no other
\* goroutine holds the lock the step takes (RLock for a read of the store,
\* Lock for a write)
StoreRead(t, pc) ==
    /\ cyc[t].pc = pc
    /\ ~ContextDone(t)
    /\ mu.w = Unlocked

StoreWrite(t, pc) ==
    /\ cyc[t].pc = pc
    /\ ~ContextDone(t)
    /\ mu = MuFree

TrackerStep(t, pc) ==
    /\ cyc[t].pc = pc
    /\ ~ContextDone(t)
    /\ syncMutex = Unlocked

\* were syncMutex still held when the step is left
ReleaseSyncMutexMissing(t) == t

\* the lock as the step leaves it: Lock() ... Unlock() around the map write
ReleaseSyncMutex(t) == Unlocked

\* syncRepository: s.syncStatus[fullName] = "syncing"; the cycle starts at
\* the current time
MarkSyncing(t) ==
    /\ TrackerStep(t, "dispatched")
    /\ syncStatus' = MapPut(syncStatus, KeyOf(t), StrSyncing)
    /\ syncMutex' = ReleaseSyncMutex(t)
    /\ cyc' = Set(t, [pc |-> "getRepo", marked |-> TRUE, start |-> clock])
    /\ UNCHANGED <<storeVars, mu, clock, gs, call, qry, fdb, adds>>

\* syncRepository: repo, err := s.cache.GetRepository(ctx, owner, name)
GetRepo(t) ==
    /\ StoreRead(t, "getRepo")
    /\ LET r == CacheGetRepository(cyc[t].owner, cyc[t].name) IN
       cyc' = IF r.err # ErrNone
              THEN Set(t, [pc |-> "errRepo", err |-> r.err])
              ELSE Set(t, [pc |-> "prGetRepo", repo |-> r.repo,
                           startLS |-> heap[r.repo].LastSyncedAt])
    /\ UNCHANGED <<storeVars, mu, syncStatus, syncMutex, clock, gs, call, qry, fdb, adds>>

\* syncRepository: the status written on each error return
ErrorStatus(pc, err) ==
    CASE pc = "errRepo" -> StatusRepoError(err)
      [] pc = "errPR" -> StatusPRError(err)
      [] pc = "errIss" -> StatusIssueError(err)

ErrorOutcome(pc) ==
    CASE pc = "errRepo" -> "repo"
      [] pc = "errPR" -> "pr"
      [] pc = "errIss" -> "issues"

MarkError(t) ==
    /\ \E pc \in {"errRepo", "errPR", "errIss"} :
        /\ TrackerStep(t, pc)
        /\ syncStatus' = MapPut(syncStatus, KeyOf(t), ErrorStatus(pc, cyc[t].err))
        /\ cyc' = Set(t, [pc |-> "deferred", outcome |-> ErrorOutcome(pc)])
    /\ syncMutex' = ReleaseSyncMutex(t)
    /\ UNCHANGED <<storeVars, mu, clock, gs, call, qry, fdb, adds>>

\* syncPullRequests: GetRepository, then the call to the external source
\* begins (no lock is held while it is in progress)
PRGetRepo(t) ==
    /\ StoreRead(t, "prGetRepo")
    /\ LET r == CacheGetRepository(cyc[t].owner, cyc[t].name) IN
       cyc' = IF r.err # ErrNone
              THEN Set(t, [pc |-> AfterPullRequestsError, err |-> r.err,
                           prErr |-> r.err])
              ELSE Set(t, [pc |-> "prFetching",
                           fullName |-> heap[r.repo].FullName])
    /\ UNCHANGED <<storeVars, mu, syncStatus, syncMutex, clock, gs, call, qry, fdb, adds>>

\* s.ghClient.ListPullRequests returns: an error, or one page
PRFetchReturn(t, pages) ==
    /\ cyc[t].pc = "prFetching"
    /\ ~ContextDone(t)
    /\ \/ cyc' = Set(t, [pc |-> AfterPullRequestsError,
                         err |-> "failed to list pull requests",
                         prErr |-> "failed to list pull requests"])
       \/ \E prs \in pages :
            cyc' = Set(t, AfterFetch("pr", prs, AfterPullRequests)
                          @@ [prs |-> prs, seenPRs |-> prs])
    /\ UNCHANGED <<storeVars, mu, syncStatus, syncMutex, clock, gs, call, qry, fdb, adds>>

\* s.cache.GetPullRequest(ctx, repo.FullName, ghPR.Number)
PRGet(t) ==
    /\ StoreRead(t, "prGet")
    /\ LET c == cyc[t]
           err == CacheGetPullRequest(c.fullName, c.prs[c.i].Number)
       IN cyc' = Set(t, [pc |-> IF err = ErrNone THEN "prUpdate" ELSE "prAdd"])
    /\ UNCHANGED <<storeVars, mu, syncStatus, syncMutex, clock, gs, call, qry, fdb, adds>>

\* s.cache.UpdatePullRequest / s.cache.AddPullRequest; `continue` on error
PRUpsert(t) ==
    /\ \E pc \in {"prUpdate", "prAdd"} :
        /\ StoreWrite(t, pc)
        /\ LET c == cyc[t]
               pr == PullRequestModel(c.fullName, c.prs[c.i])
               r == IF pc = "prUpdate" THEN CacheUpdatePullRequest(pr)
                    ELSE CacheAddPullRequest(pr)
           IN /\ pullRequests' = r.items
              /\ cyc' = Set(t, (IF r.err # ErrNone
                                THEN AfterUpsertError("pr", c.prs, c.i, AfterPullRequests)
                                ELSE AfterUpsert("pr", c.prs, c.i, AfterPullRequests))
                               @@ [wrotePR |-> TRUE] @@ Skip(c, "pr", r.err))
    /\ UNCHANGED <<repositories, heap, issues, labels, prLabels, issueLabels,
                   mu, syncStatus, syncMutex, clock, gs, call, qry, fdb, adds>>

\* s.cache.GetLabel(ctx, ghLabel.Name)
PRLabel(t) ==
    /\ StoreRead(t, "prLabel")
    /\ LET c == cyc[t]
           err == CacheGetLabel(c.prs[c.i].Labels[c.j])
       IN cyc' = Set(t, [pc |-> IF err # ErrNone THEN "prAddLabel" ELSE "prAttach"])
    /\ UNCHANGED <<storeVars, mu, syncStatus, syncMutex, clock, gs, call, qry, fdb, adds>>

\* s.cache.AddLabel(ctx, label); `continue` on error
PRAddLabel(t) ==
    /\ StoreWrite(t, "prAddLabel")
    /\ LET c == cyc[t]
           r == CacheAddLabel(c.prs[c.i].Labels[c.j])
       IN /\ labels' = r.labels
          /\ cyc' = Set(t, (IF r.err # ErrNone
                            THEN AfterLabel("pr", c.prs, c.i, c.j, AfterPullRequests)
                            ELSE [pc |-> "prAttach"])
                           @@ [wrotePR |-> TRUE] @@ Skip(c, "pr", r.err))
    /\ UNCHANGED <<repositories, heap, pullRequests, issues, prLabels,
                   issueLabels, mu, syncStatus, syncMutex, clock, gs, call, qry, fdb, adds>>

\* s.cache.AddPullRequestLabel(ctx, repo.FullName, ghPR.Number, ghLabel.Name)
PRAttach(t) ==
    /\ StoreWrite(t, "prAttach")
    /\ LET c == cyc[t]
           r == CacheAddPullRequestLabel(c.fullName, c.prs[c.i].Number,
                                         c.prs[c.i].Labels[c.j])
       IN /\ prLabels' = r.links
          /\ cyc' = Set(t, AfterLabel("pr", c.prs, c.i, c.j, AfterPullRequests)
                           @@ [wrotePR |-> TRUE] @@ Skip(c, "pr", r.err))
    /\ UNCHANGED <<repositories, heap, pullRequests, issues, labels,
                   issueLabels, mu, syncStatus, syncMutex, clock, gs, call, qry, fdb, adds>>

\* syncIssues: GetRepository, then the call to the external source begins
IssGetRepo(t) ==
    /\ StoreRead(t, "issGetRepo")
    /\ LET r == CacheGetRepository(cyc[t].owner, cyc[t].name) IN
       cyc' = IF r.err # ErrNone
              THEN Set(t, [pc |-> "errIss", err |-> r.err])
              ELSE Set(t, [pc |-> "issFetching", fetchedIssues |-> TRUE,
                           fullName |-> heap[r.repo].FullName])
    /\ UNCHANGED <<storeVars, mu, syncStatus, syncMutex, clock, gs, call, qry, fdb, adds>>

\* s.ghClient.ListIssues returns: an error, or one page
IssFetchReturn(t, pages) ==
    /\ cyc[t].pc = "issFetching"
    /\ ~ContextDone(t)
    /\ \/ cyc' = Set(t, [pc |-> "errIss", err |-> "failed to list issues"])
       \/ \E iss \in pages :
            cyc' = Set(t, AfterFetch("iss", iss, AfterIssues)
                          @@ [issues |-> iss, seenIssues |-> iss])
    /\ UNCHANGED <<storeVars, mu, syncStatus, syncMutex, clock, gs, call, qry, fdb, adds>>

\* s.cache.GetIssue(ctx, repo.FullName, ghIssue.Number)
IssGet(t) ==
    /\ StoreRead(t, "issGet")
    /\ LET c == cyc[t]
           err == CacheGetIssue(c.fullName, c.issues[c.i].Number)
       IN cyc' = Set(t, [pc |-> IF err = ErrNone THEN "issUpdate" ELSE "issAdd"])
    /\ UNCHANGED <<storeVars, mu, syncStatus, syncMutex, clock, gs, call, qry, fdb, adds>>

\* s.cache.UpdateIssue / s.cache.AddIssue; `continue` on error
IssUpsert(t) ==
    /\ \E pc \in {"issUpdate", "issAdd"} :
        /\ StoreWrite(t, pc)
        /\ LET c == cyc[t]
               issue == IssueModel(c.fullName, c.issues[c.i])
               r == IF pc = "issUpdate" THEN CacheUpdateIssue(issue)
                    ELSE CacheAddIssue(issue)
           IN /\ issues' = r.items
              /\ cyc' = Set(t, (IF r.err # ErrNone
                                THEN AfterUpsertError("iss", c.issues, c.i, AfterIssues)
                                ELSE AfterUpsert("iss", c.issues, c.i, AfterIssues))
                               @@ [wroteIssues |-> TRUE] @@ Skip(c, "iss", r.err))
    /\ UNCHANGED <<repositories, heap, pullRequests, labels, prLabels,
                   issueLabels, mu, syncStatus, syncMutex, clock, gs, call, qry, fdb, adds>>

\* s.cache.GetLabel(ctx, ghLabel.Name)
IssLabel(t) ==
    /\ StoreRead(t, "issLabel")
    /\ LET c == cyc[t]
           err == CacheGetLabel(c.issues[c.i].Labels[c.j])
       IN cyc' = Set(t, [pc |-> IF err # ErrNone THEN "issAddLabel" ELSE "issAttach"])
    /\ UNCHANGED <<storeVars, mu, syncStatus, syncMutex, clock, gs, call, qry, fdb, adds>>

\* s.cache.AddLabel(ctx, label); `continue` on error
IssAddLabel(t) ==
    /\ StoreWrite(t, "issAddLabel")
    /\ LET c == cyc[t]
           r == CacheAddLabel(c.issues[c.i].Labels[c.j])
       IN /\ labels' = r.labels
          /\ cyc' = Set(t, (IF r.err # ErrNone
                            THEN AfterLabel("iss", c.issues, c.i, c.j, AfterIssues)
                            ELSE [pc |-> "issAttach"])
                           @@ [wroteIssues |-> TRUE] @@ Skip(c, "iss", r.err))
    /\ UNCHANGED <<repositories, heap, pullRequests, issues, prLabels,
                   issueLabels, mu, syncStatus, syncMutex, clock, gs, call, qry, fdb, adds>>

\* s.cache.AddIssueLabel(ctx, repo.FullName, ghIssue.Number, ghLabel.Name)
IssAttach(t) ==
    /\ StoreWrite(t, "issAttach")
    /\ LET c == cyc[t]
           r == CacheAddIssueLabel(c.fullName, c.issues[c.i].Number,
                                   c.issues[c.i].Labels[c.j])
       IN /\ issueLabels' = r.links
          /\ cyc' = Set(t, AfterLabel("iss", c.issues, c.i, c.j, AfterIssues)
                           @@ [wroteIssues |-> TRUE] @@ Skip(c, "iss", r.err))
    /\ UNCHANGED <<repositories, heap, pullRequests, issues, labels,
                   prLabels, mu, syncStatus, syncMutex, clock, gs, call, qry, fdb, adds>>

\* what time.Now() may return: a later time at every call
Times == {clock + 1}

\* the value syncRepository writes into repo.LastSyncedAt
StampTime(t, now) == now

\* syncRepository: repo.LastSyncedAt = time.Now(), a write through the
\* pointer GetRepository returned, outside any lock
Stamp(t, now) ==
    /\ cyc[t].pc = "stamp"
    /\ ~ContextDone(t)
    /\ clock' = now
    /\ heap' = [heap EXCEPT ![cyc[t].repo].LastSyncedAt = StampTime(t, now)]
    /\ cyc' = Set(t, [pc |-> "update", stamped |-> TRUE])
    /\ UNCHANGED <<repositories, pullRequests, issues, labels, prLabels,
                   issueLabels, mu, syncStatus, syncMutex, gs, call, qry, fdb, adds>>

\* syncRepository: s.cache.UpdateRepository(ctx, repo); its error is
\* returned without a status write
UpdateRepo(t) ==
    /\ StoreWrite(t, "update")
    /\ LET r == CacheUpdateRepository(cyc[t].repo) IN
        /\ repositories' = r.repositories
        /\ cyc' = Set(t, [pc |-> "deferred",
                          err |-> r.err,
                          outcome |-> IF r.err # ErrNone THEN "update" ELSE "ok"])
    /\ UNCHANGED <<heap, pullRequests, issues, labels, prLabels, issueLabels,
                   mu, syncStatus, syncMutex, clock, gs, call, qry, fdb, adds>>

\* were the status entry left in place when syncRepository returns
DeferredStatusKept(t) == syncStatus

\* the status map after the deferred function of syncRepository ran
DeferredStatus(t) == MapDelete(syncStatus, KeyOf(t))

\* syncRepository returns: the deferred delete(s.syncStatus, fullName) runs
\* and the goroutine logs the error
Deferred(t) ==
    /\ TrackerStep(t, "deferred")
    /\ syncStatus' = DeferredStatus(t)
    /\ syncMutex' = ReleaseSyncMutex(t)
    /\ cyc' = [cyc EXCEPT ![t] =
                  [NoCycle EXCEPT !.pc = "done",
                                  !.outcome = cyc[t].outcome,
                                  !.cancelled = cyc[t].cancelled,
                                  !.result = CallerResult(t, cyc[t].err)]]
    /\ UNCHANGED <<storeVars, mu, clock, gs, call, qry, fdb, adds>>

CycleStep(t) ==
    \/ MarkSyncing(t)
    \/ GetRepo(t)
    \/ MarkError(t)
    \/ PRGetRepo(t)
    \/ PRFetchReturn(t, GhLists(GhPullRequests))
    \/ PRGet(t)
    \/ PRUpsert(t)
    \/ PRLabel(t)
    \/ PRAddLabel(t)
    \/ PRAttach(t)
    \/ IssGetRepo(t)
    \/ IssFetchReturn(t, GhLists(GhIssues))
    \/ IssGet(t)
    \/ IssUpsert(t)
    \/ IssLabel(t)
    \/ IssAddLabel(t)
    \/ IssAttach(t)
    \/ \E now \in Times : Stamp(t, now)
    \/ UpdateRepo(t)
    \/ Deferred(t)

----------------------------------------------------------------------------
\* The request handlers of the Service.

\* strings.Split(s, "/"): the parts between the "/" tokens
RECURSIVE Split(_)
Split(s) ==
    IF \A k \in 1..Len(s) : s[k] # "/" THEN <<s>>
    ELSE LET k == CHOOSE x \in 1..Len(s) :
                    s[x] = "/" /\ \A y \in 1..(x - 1) : s[y] # "/"
         IN <<SubSeq(s, 1, k - 1)>> \o Split(SubSeq(s, k + 1, Len(s)))

\* a part as a string: parts here hold at most one token
PartString(part) == IF part = <<>> THEN "" ELSE part[1]

\* what a request for one repository may carry as its full name
AddInputs == RepoKeys \cup {<<"widgets">>}

NextCycle == Cardinality(Dispatched) + 1

\* go func() { s.syncRepository(context.Background(), owner, name) }():
\* the new goroutines, one per (owner, name) of `targets`
Dispatch(targets) ==
    LET n == Cardinality(targets)
        order == CHOOSE f \in [1..n -> targets] : \A a, b \in 1..n : a # b => f[a] # f[b]
        first == NextCycle
        isNew(t) == t >= first /\ t < first + n
        key(t) == FullNameOf(order[t - first + 1][1], order[t - first + 1][2])
        busy(k) == \E u \in Cycles : InFlight(u) /\ KeyOf(u) = k
    IN [t \in Cycles |->
          IF isNew(t)
          THEN [NoCycle EXCEPT !.pc = "dispatched",
                               !.owner = order[t - first + 1][1],
                               !.name = order[t - first + 1][2],
                               !.result = "ok",
                               !.overlapped = busy(key(t))]
          ELSE IF InFlight(t) /\ \E o \in targets : KeyOf(t) = FullNameOf(o[1], o[2])
          THEN Scope([cyc[t] EXCEPT !.overlapped = TRUE])
          ELSE cyc[t]]

\* Service.AddRepository(ctx, fullName)
AddRepository(fullName, now) ==
    LET parts == Split(fullName)
        owner == PartString(parts[1])
        name == PartString(parts[2])
    IN
    \/ \* ErrInvalidRepositoryName
       /\ Len(parts) # 2
       /\ UNCHANGED vars
    \/ \* already tracked: the existing record is returned
       /\ Len(parts) = 2
       /\ CacheGetRepository(owner, name).err = ErrNone
       /\ UNCHANGED vars
    \/ \* s.ghClient.GetRepository failed
       /\ Len(parts) = 2
       /\ CacheGetRepository(owner, name).err # ErrNone
       /\ UNCHANGED vars
    \/ \* fetched, added to the cache, cycle dispatched
       /\ Len(parts) = 2
       /\ CacheGetRepository(owner, name).err # ErrNone
       /\ owner \in Owners /\ name \in Names
       /\ Len(heap) < MaxObjs
       /\ NextCycle <= MaxCycles
       /\ mu = MuFree
       /\ LET ghRepo == GhRepository(owner, name)
              repo == Len(heap) + 1
              rec == [Owner |-> ghRepo.Owner, Name |-> ghRepo.Name,
                      FullName |-> ghRepo.FullName, LastSyncedAt |-> now,
                      Description |-> ghRepo.Description]
          IN /\ heap' = Append(heap, rec)
             /\ LET r == CacheAddRepository(repo, rec) IN
                  /\ r.err = ErrNone
                  /\ repositories' = r.repositories
                  /\ pullRequests' = r.pullRequests
                  /\ issues' = r.issues
                  /\ prLabels' = r.prLabels
                  /\ issueLabels' = r.issueLabels
       /\ clock' = now
       /\ cyc' = Dispatch({<<owner, name>>})
       /\ UNCHANGED <<labels, mu, syncStatus, syncMutex, gs, call, qry, fdb, adds>>

\* what Service.AddRepository(fullName) returned: `repo` is the pointer
\* returned (0: nil), `fetched` whether s.ghClient.GetRepository was called,
\* `ghErr` whether it returned an error
AddReturned(fullName, err, repo, fetched, ghErr) ==
    [op |-> "Service.AddRepository", fullName |-> fullName, err |-> err,
     same |-> ~(fetched /\ err = ErrNone), repo |-> repo, fetched |-> fetched,
     ghErr |-> ghErr]

\* were a tracked repository answered with the already-exists error
AddExistingRejected(fullName, existing) ==
    AddReturned(fullName, "repository already exists", 0, FALSE, FALSE)

\* the repository is already tracked: `return existingRepo, nil`
AddExisting(fullName, existing) ==
    AddReturned(fullName, ErrNone, existing.repo, FALSE, FALSE)

\* were the error of s.ghClient.GetRepository dropped
AddFetchFailedIgnored(fullName) ==
    AddReturned(fullName, ErrNone, 0, TRUE, TRUE)

\* s.ghClient.GetRepository returned an error: `return nil, fmt.Errorf(...)`
AddFetchFailed(fullName) ==
    AddReturned(fullName, "failed to get repository from GitHub", 0, TRUE,
                TRUE)

\* Service.AddRepository(ctx, fullName) with what it returns kept in `call`;
\* ghErr: s.ghClient.GetRepository returns an error
AddRepositoryCall(fullName, now, ghErr) ==
    LET parts == Split(fullName)
        owner == PartString(parts[1])
        name == PartString(parts[2])
        existing == CacheGetRepository(owner, name)
    IN
    /\ call = NoCall
    /\ IF Len(parts) # 2
       THEN /\ call' = AddReturned(fullName, "invalid repository name format",
                                   0, FALSE, FALSE)
            /\ UNCHANGED <<storeVars, clock, cyc>>
       ELSE IF existing.err = ErrNone /\ existing.repo # 0
       THEN /\ call' = AddExisting(fullName, existing)
            /\ UNCHANGED <<storeVars, clock, cyc>>
       ELSE IF ghErr
       THEN /\ call' = AddFetchFailed(fullName)
            /\ UNCHANGED <<storeVars, clock, cyc>>
       ELSE /\ owner \in Owners /\ name \in Names
            /\ Len(heap) < MaxObjs
            /\ NextCycle <= MaxCycles
            /\ mu = MuFree
            /\ LET ghRepo == GhRepository(owner, name)
                   repo == Len(heap) + 1
                   rec == [Owner |-> ghRepo.Owner, Name |-> ghRepo.Name,
                           FullName |-> ghRepo.FullName, LastSyncedAt |-> now,
                      Description |-> ghRepo.Description]
                   r == CacheAddRepository(repo, rec)
               IN /\ r.err = ErrNone
                  /\ heap' = Append(heap, rec)
                  /\ repositories' = r.repositories
                  /\ pullRequests' = r.pullRequests
                  /\ issues' = r.issues
                  /\ prLabels' = r.prLabels
                  /\ issueLabels' = r.issueLabels
                  /\ call' = AddReturned(fullName, ErrNone, repo, TRUE, FALSE)
            /\ clock' = now
            /\ cyc' = Dispatch({<<owner, name>>})
            /\ UNCHANGED labels
    /\ UNCHANGED <<mu, syncStatus, syncMutex, gs, qry, fdb, adds>>

\* the caller has read what Service.AddRepository returned
AddRepositoryForget ==
    /\ call # NoCall
    /\ call' = NoCall
    /\ UNCHANGED <<storeVars, mu, syncStatus, syncMutex, clock, cyc, gs, qry,
                   fdb, adds>>

\* Service.AddRepository step by step, one request per caller: the lookup
\* (70-83), the return of the external source (88-92), the insert and the
\* dispatch (96-128).  `inserted`: s.cache.AddRepository returned nil;
\* `cycle`: the goroutine the request started (0: none).
AddIdle ==
    [pc |-> "idle", fullName |-> <<>>, owner |-> "", name |-> "",
     gh |-> GhRepository("", ""), err |-> ErrNone, repo |-> 0,
     inserted |-> FALSE, cycle |-> 0]

\* the request returns err and repo to its caller
AddReturn(a, err, repo) == [a EXCEPT !.pc = "returned", !.err = err, !.repo = repo]

\* strings.Split, the length check and s.cache.GetRepository
AddBegin(c, fullName) ==
    LET parts == Split(fullName)
        owner == PartString(parts[1])
        name == PartString(parts[2])
        existing == CacheGetRepository(owner, name)
        a == [adds[c] EXCEPT !.fullName = fullName]
    IN
    /\ adds[c].pc = "idle"
    /\ mu.w = Unlocked
    /\ adds' = [adds EXCEPT ![c] =
          IF Len(parts) # 2
          THEN AddReturn(a, "invalid repository name format", 0)
          ELSE IF existing.err = ErrNone /\ existing.repo # 0
          THEN AddReturn([a EXCEPT !.owner = owner, !.name = name], ErrNone,
                         existing.repo)
          ELSE [a EXCEPT !.pc = "fetching", !.owner = owner, !.name = name]]
    /\ UNCHANGED <<storeVars, mu, syncStatus, syncMutex, clock, cyc, gs, call,
                   qry, fdb>>

\* s.ghClient.GetRepository returns: an error, or the repository as the
\* external source reports it
AddFetchReturn(c, ghRepo, ghErr) ==
    /\ adds[c].pc = "fetching"
    /\ adds' = [adds EXCEPT ![c] =
          IF ghErr
          THEN AddReturn(@, "failed to get repository from GitHub", 0)
          ELSE [@ EXCEPT !.pc = "fetched", !.gh = ghRepo]]
    /\ UNCHANGED <<storeVars, mu, syncStatus, syncMutex, clock, cyc, gs, call,
                   qry, fdb>>

\* the record is built, s.cache.AddRepository is called and, when it
\* returns nil, the sync goroutine is started
AddInsert(c, now) ==
    LET a == adds[c]
        repo == Len(heap) + 1
        rec == [Owner |-> a.gh.Owner, Name |-> a.gh.Name,
                FullName |-> a.gh.FullName, LastSyncedAt |-> now,
                Description |-> a.gh.Description]
        r == CacheAddRepository(repo, rec)
    IN
    /\ a.pc = "fetched"
    /\ mu = MuFree
    /\ IF r.err # ErrNone
       THEN /\ adds' = [adds EXCEPT ![c] =
                   AddReturn(a, "failed to add repository to cache", 0)]
            /\ UNCHANGED <<storeVars, cyc>>
       ELSE /\ Len(heap) < MaxObjs
            /\ NextCycle <= MaxCycles
            /\ heap' = Append(heap, rec)
            /\ repositories' = r.repositories
            /\ pullRequests' = r.pullRequests
            /\ issues' = r.issues
            /\ prLabels' = r.prLabels
            /\ issueLabels' = r.issueLabels
            /\ cyc' = Dispatch({<<a.owner, a.name>>})
            /\ adds' = [adds EXCEPT ![c] =
                   [AddReturn(a, ErrNone, repo) EXCEPT !.inserted = TRUE,
                                                       !.cycle = NextCycle]]
            /\ UNCHANGED labels
    /\ clock' = now
    /\ UNCHANGED <<mu, syncStatus, syncMutex, gs, call, qry, fdb>>

\* Service.RefreshRepository(ctx, owner, name)
RefreshRepository(owner, name) ==
    \/ \* ErrRepositoryNotFound
       /\ CacheGetRepository(owner, name).err # ErrNone
       /\ UNCHANGED vars
    \/ /\ CacheGetRepository(owner, name).err = ErrNone
       /\ NextCycle <= MaxCycles
       /\ mu = MuFree
       /\ cyc' = Dispatch({<<owner, name>>})
       /\ UNCHANGED <<storeVars, mu, syncStatus, syncMutex, clock, gs, call, qry, fdb, adds>>

\* Service.RefreshAll(ctx): one goroutine per listed repository
RefreshAll ==
    LET repos == CacheListRepositories.repos
        targets == {<<heap[p].Owner, heap[p].Name>> : p \in repos}
    IN /\ mu = MuFree
       /\ NextCycle + Cardinality(targets) - 1 <= MaxCycles
       /\ cyc' = Dispatch(targets)
       /\ UNCHANGED <<storeVars, mu, syncStatus, syncMutex, clock, gs, call, qry, fdb, adds>>

\* Service.DeleteRepository(ctx, owner, name)
DeleteRepository(owner, name) ==
    /\ mu = MuFree
    /\ LET r == CacheDeleteRepository(owner, name) IN
        /\ repositories' = r.repositories
        /\ pullRequests' = r.pullRequests
        /\ issues' = r.issues
        /\ prLabels' = r.prLabels
        /\ issueLabels' = r.issueLabels
    /\ UNCHANGED <<heap, labels, mu, syncStatus, syncMutex, clock, cyc, gs, call, qry, fdb, adds>>

\* the zero time.Time
ZeroTime == 0

\* GetStatus: syncing := len(s.syncStatus)
SyncingCount == Cardinality(DOMAIN syncStatus)

\* GetStatus: the statuses with prefix "error"
ErrorCount ==
    Cardinality({k \in DOMAIN syncStatus : HasPrefix(syncStatus[k], StrError)})

RECURSIVE LastSyncEarliest(_, _)
\* were the earliest time kept instead of the latest
LastSyncEarliest(repos, lastSync) ==
    IF repos = {} THEN lastSync
    ELSE LET p == CHOOSE x \in repos : TRUE IN
         LastSyncEarliest(repos \ {p},
                          IF heap[p].LastSyncedAt < lastSync
                          THEN heap[p].LastSyncedAt ELSE lastSync)

RECURSIVE LastSync(_, _)
\* GetStatus: the latest LastSyncedAt of the listed repositories
LastSync(repos, lastSync) ==
    IF repos = {} THEN lastSync
    ELSE LET p == CHOOSE x \in repos : TRUE IN
         LastSync(repos \ {p},
                  IF heap[p].LastSyncedAt > lastSync THEN heap[p].LastSyncedAt
                  ELSE lastSync)

GsIdle == [pc |-> "idle", repos |-> {}, total |-> 0, result |-> <<>>]

\* GetStatus: s.cache.ListRepositories(ctx, 1, 1000)
GetStatusList ==
    /\ gs.pc = "idle"
    /\ mu.w = Unlocked
    /\ LET r == CacheListRepositories IN
       gs' = [pc |-> "listed", repos |-> r.repos, total |-> r.total,
              result |-> <<>>]
    /\ UNCHANGED <<storeVars, mu, syncStatus, syncMutex, clock, cyc, call, qry, fdb, adds>>

\* the SystemStatus GetStatus returns, or its error
StatusResult(err, total, syncing, error, lastSync) ==
    [err |-> err, total |-> total, syncing |-> syncing, error |-> error,
     last_sync |-> lastSync]

\* GetStatus: the counts under syncMutex, the rate limit, the last sync time
GetStatusCount ==
    /\ gs.pc = "listed"
    /\ syncMutex = Unlocked
    /\ \/ \* s.ghClient.GetRateLimit failed
          gs' = [GsIdle EXCEPT !.result =
                    <<StatusResult("failed to get rate limit", 0, 0, 0, ZeroTime)>>]
       \/ gs' = [GsIdle EXCEPT !.result =
                    <<StatusResult(ErrNone, gs.total, SyncingCount, ErrorCount,
                                   LastSync(gs.repos, ZeroTime))>>]
    /\ UNCHANGED <<storeVars, mu, syncStatus, syncMutex, clock, cyc, call, qry, fdb, adds>>

\* the request that triggered cycle t is cancelled, or has returned: its
\* context is done
CancelRequest(t) ==
    /\ InFlight(t)
    /\ ~cyc[t].cancelled
    /\ cyc' = Set(t, [cancelled |-> TRUE])
    /\ UNCHANGED <<storeVars, mu, syncStatus, syncMutex, clock, gs, call, qry, fdb, adds>>

----------------------------------------------------------------------------
\* The query engine: Service.listAllPullRequests and Service.listAllIssues.
\* The request resolves its repositories, lists the items of each of them
\* with one call to the Cache per repository, then filters, sorts and pages
\* what it collected.  `kind` is "pr" for ListPullRequests and "iss" for
\* ListIssues; the two functions differ in nothing else.

\* page size of the listings the Service asks the Cache for
ServicePerPage == 1000

ErrInvalidRepositoryName == "invalid repository name format"
ErrRepositoryNotFound == "repository not found"

\* unicode.SimpleFold classes of the strings that occur: the lower-case form
Fold(str) ==
    CASE str = "OPEN" -> "open"
      [] str = "Open" -> "open"
      [] str = "CLOSED" -> "closed"
      [] str = "Alice" -> "alice"
      [] str = "ALICE" -> "alice"
      [] str = "Bob" -> "bob"
      [] OTHER -> str

\* strings.EqualFold(s, t)
EqualFold(str, t) == Fold(str) = Fold(t)

\* the filter loop: the items that pass the state and the author filter, in
\* the order collected
QueryFilter(all, state, author) ==
    SelectSeq(all, LAMBDA it :
        /\ ~(state # "" /\ ~EqualFold(it.State, state))
        /\ ~(author # "" /\ ~EqualFold(it.UserLogin, author)))

\* were the order ascending unless "desc" is asked for
QueryLessUnlessDesc(a, b, direction) ==
    IF direction = "desc" THEN a.CreatedAt > b.CreatedAt
    ELSE a.CreatedAt < b.CreatedAt

\* the less function handed to sort.Slice
QueryLess(a, b, direction) ==
    IF direction = "asc" THEN a.CreatedAt < b.CreatedAt
    ELSE a.CreatedAt > b.CreatedAt

\* sort.Slice rearranges the slice (the items are distinct pointers) ...
Arranged(srt, filtered) ==
    /\ DOMAIN srt = DOMAIN filtered
    /\ \A x \in DOMAIN filtered : \E y \in DOMAIN srt : srt[y] = filtered[x]

\* ... so that no item is less than an item before it
Ordered(srt, direction) ==
    \A a, b \in DOMAIN srt : a < b => ~QueryLess(srt[b], srt[a], direction)

\* sort.Slice is not stable: every ordered arrangement of `filtered`
SortResults(filtered, direction) ==
    {srt \in {[x \in DOMAIN filtered |-> filtered[f[x]]] :
                 f \in RangeOrders(filtered)} : Ordered(srt, direction)}

\* were the number of pages rounded down
PaginationFloor(page, perPage, total) ==
    [Page |-> page, PerPage |-> perPage, Total |-> total,
     TotalPages |-> total \div perPage]

\* &models.Pagination{...}
Pagination(page, perPage, total) ==
    [Page |-> page, PerPage |-> perPage, Total |-> total,
     TotalPages |-> (total + perPage - 1) \div perPage]

NoPagination == [Page |-> 0, PerPage |-> 0, Total |-> 0, TotalPages |-> 0]

\* what the request returns: items, pagination, error
QueryAnswer(err, items, pagination) ==
    [err |-> err, items |-> items, pagination |-> pagination]

\* "Apply pagination" on the sorted items
QueryPage(sorted, page, perPage) ==
    LET total == Len(sorted)
        start == (page - 1) * perPage
        end == IF start + perPage > total THEN total ELSE start + perPage
    IN IF start >= total
       THEN QueryAnswer(ErrNone, <<>>, Pagination(page, perPage, total))
       ELSE QueryAnswer(ErrNone, Slice(sorted, start, end),
                        Pagination(page, perPage, total))

NoFilter == [State |-> "", Author |-> "", Direction |-> "", Page |-> 0,
             PerPage |-> 0]

\* pc: idle, listing (the loop over repos, at index i), collected, returned.
\* `at` is c.repositories as the request found it and `failed` the indices
\* of repos whose listing returned an error: neither is read by the request.
QIdle ==
    [pc |-> "idle", kind |-> "", scope |-> <<>>, repos |-> <<>>, i |-> 0,
     all |-> <<>>, failed |-> {}, at |-> EmptyMap, filter |-> NoFilter,
     result |-> QueryAnswer(ErrNone, <<>>, NoPagination)]

\* were a name of more than two parts let through
InvalidRepositoryNameShort(parts) == Len(parts) < 2

\* if len(parts) != 2
InvalidRepositoryName(parts) == Len(parts) # 2

\* the collection the request lists from
QueryItems(kind) == IF kind = "pr" THEN pullRequests ELSE issues

\* the request begins: filter.Repo is split and looked up, or the
\* repositories are listed
QueryResolve(kind, scope, order) ==
    /\ qry.pc = "idle"
    /\ LET begun == [QIdle EXCEPT !.kind = kind, !.scope = scope,
                                  !.at = repositories]
           fail(err) == [begun EXCEPT !.pc = "returned",
                                      !.result = QueryAnswer(err, <<>>, NoPagination)]
           loop(repos) == [begun EXCEPT !.pc = IF repos = <<>> THEN "collected"
                                               ELSE "listing",
                                        !.repos = repos, !.i = 1]
       IN IF scope # <<>>
          THEN LET parts == Split(scope) IN
               IF InvalidRepositoryName(parts)
               THEN qry' = fail(ErrInvalidRepositoryName)
               ELSE /\ mu.w = Unlocked
                    /\ LET r == CacheGetRepository(PartString(parts[1]),
                                                   PartString(parts[2]))
                       IN qry' = IF r.err # ErrNone
                                 THEN fail(ErrRepositoryNotFound)
                                 ELSE loop(<<r.repo>>)
          ELSE /\ mu.w = Unlocked
               /\ order \in RangeOrders(repositories)
               /\ qry' = loop(CacheListRepositoriesPage(1, ServicePerPage,
                                                        order).repos)
    /\ UNCHANGED <<storeVars, mu, syncStatus, syncMutex, clock, cyc, gs, call, fdb, adds>>

\* were the error of a listing returned to the caller
ListFailedReturned(q, last) ==
    [q EXCEPT !.failed = @ \cup {q.i}, !.pc = "returned",
              !.result = QueryAnswer("failed to list", <<>>, NoPagination)]

\* if err != nil { continue }
ListFailed(q, last) ==
    [q EXCEPT !.failed = @ \cup {q.i}, !.i = @ + 1,
              !.pc = IF last THEN "collected" ELSE "listing"]

\* one turn of the loop over repos: the items of repos[i] are listed and
\* appended; an error of the listing is skipped
QueryList(order) ==
    /\ qry.pc = "listing"
    /\ mu.w = Unlocked
    /\ LET fullName == heap[qry.repos[qry.i]].FullName
           r == CacheListItems(QueryItems(qry.kind), fullName, 1,
                               ServicePerPage, order)
           last == qry.i = Len(qry.repos)
       IN /\ order \in ListOrders(QueryItems(qry.kind), fullName)
          /\ qry' = IF r.err # ErrNone
                    THEN ListFailed(qry, last)
                    ELSE [qry EXCEPT !.all = @ \o r.items, !.i = @ + 1,
                                     !.pc = IF last THEN "collected"
                                            ELSE "listing"]
    /\ UNCHANGED <<storeVars, mu, syncStatus, syncMutex, clock, cyc, gs, call, fdb, adds>>

\* the rest of the function: filter, sort, page.  The fields of the filter
\* other than Repo are read here for the first time.
QueryReturn(filter, sorted) ==
    /\ qry.pc = "collected"
    /\ (/\ Arranged(sorted, QueryFilter(qry.all, filter.State, filter.Author))
        /\ Ordered(sorted, filter.Direction)) = TRUE
    /\ qry' = [qry EXCEPT !.pc = "returned", !.filter = filter,
                          !.result = QueryPage(sorted, filter.Page, filter.PerPage)]
    /\ UNCHANGED <<storeVars, mu, syncStatus, syncMutex, clock, cyc, gs, call, fdb, adds>>

\* the caller is done with what the request returned
QueryForget ==
    /\ qry.pc = "returned"
    /\ qry' = QIdle
    /\ UNCHANGED <<storeVars, mu, syncStatus, syncMutex, clock, cyc, gs, call, fdb, adds>>

\* Repository names are interchangeable: the first repository ever tracked
\* is acme/widgets.
FirstUse(fullName) == heap = <<>> => fullName # FullNameOf("acme", "gadgets")

----------------------------------------------------------------------------
Init ==
    /\ repositories = EmptyMap
    /\ heap = <<>>
    /\ pullRequests = EmptyMap
    /\ issues = EmptyMap
    /\ labels = {}
    /\ prLabels = EmptyMap
    /\ issueLabels = EmptyMap
    /\ mu = MuFree
    /\ syncStatus = EmptyMap
    /\ syncMutex = Unlocked
    /\ clock = 1
    /\ cyc = [t \in Cycles |-> NoCycle]
    /\ gs = GsIdle
    /\ call = NoCall
    /\ qry = QIdle
    /\ fdb = NewDB
    /\ adds = [c \in AddCallers |-> AddIdle]

\* One repository, tracked, refreshed, deleted and tracked again, and its
\* sync cycles.
Next ==
    \/ \E fullName \in {FullNameOf("acme", "widgets"), <<"widgets">>},
          now \in Times : AddRepository(fullName, now)
    \/ RefreshRepository("acme", "widgets")
    \/ RefreshAll
    \/ DeleteRepository("acme", "widgets")
    \/ \E t \in Cycles : CycleStep(t)

Spec == Init /\ [][Next]_vars

\* Two repositories and their sync cycles, no repository deleted.
NextTwo ==
    \/ \E fullName \in AddInputs, now \in Times :
          FirstUse(fullName) /\ AddRepository(fullName, now)
    \/ \E o \in Owners, n \in Names : RefreshRepository(o, n)
    \/ RefreshAll
    \/ \E t \in Cycles : CycleStep(t)

SpecTwo == Init /\ [][NextTwo]_vars

\* a cycle whose fetches return an error or an empty page
QuietCycleStep(t) ==
    \/ MarkSyncing(t)
    \/ GetRepo(t)
    \/ MarkError(t)
    \/ PRGetRepo(t)
    \/ PRFetchReturn(t, {<<>>})
    \/ IssGetRepo(t)
    \/ IssFetchReturn(t, {<<>>})
    \/ \E now \in Times : Stamp(t, now)
    \/ UpdateRepo(t)
    \/ Deferred(t)

\* The status requests, next to the handlers and the cycles of repositories
\* that have no pull requests and no issues.
NextStatus ==
    \/ \E fullName \in AddInputs, now \in Times :
          FirstUse(fullName) /\ AddRepository(fullName, now)
    \/ \E o \in Owners, n \in Names : RefreshRepository(o, n)
    \/ RefreshAll
    \/ \E o \in Owners, n \in Names : DeleteRepository(o, n)
    \/ GetStatusList
    \/ GetStatusCount
    \/ \E t \in Cycles : QuietCycleStep(t)

SpecStatus == Init /\ [][NextStatus]_vars

\* Service.AddRepository with its return value, next to deletions and to the
\* cycles of repositories that have no pull requests and no issues.
NextAdd ==
    \/ \E fullName \in AddInputs, now \in Times, ghErr \in BOOLEAN :
          FirstUse(fullName) /\ AddRepositoryCall(fullName, now, ghErr)
    \/ AddRepositoryForget
    \/ \E o \in Owners, n \in Names : DeleteRepository(o, n)
    \/ \E t \in Cycles : QuietCycleStep(t)

SpecAdd == Init /\ [][NextAdd]_vars

\* Concurrent requests to Service.AddRepository, the external source
\* reporting the repository under the name it was asked for, next to the
\* cycles the requests start.
NextRace ==
    \/ \E c \in AddCallers, fullName \in AddInputs : AddBegin(c, fullName)
    \/ \E c \in AddCallers, ghErr \in BOOLEAN :
          AddFetchReturn(c, GhRepository(adds[c].owner, adds[c].name), ghErr)
    \/ \E c \in AddCallers, now \in Times : AddInsert(c, now)
    \/ \E t \in Cycles : QuietCycleStep(t)

SpecRace == Init /\ [][NextRace]_vars

\* the pages the external source returns in SpecLive
LivePullRequests ==
    {<<>>, <<[Number |-> 1, State |-> "open", MergedAt |-> "nil",
              Labels |-> <<"bug">>]>>}
LiveIssues == {<<>>, <<[Number |-> 1, State |-> "open", Labels |-> <<"bug">>]>>}

LiveCycleStep(t) ==
    \/ MarkSyncing(t)
    \/ GetRepo(t)
    \/ MarkError(t)
    \/ PRGetRepo(t)
    \/ PRFetchReturn(t, LivePullRequests)
    \/ PRGet(t)
    \/ PRUpsert(t)
    \/ PRLabel(t)
    \/ PRAddLabel(t)
    \/ PRAttach(t)
    \/ IssGetRepo(t)
    \/ IssFetchReturn(t, LiveIssues)
    \/ IssGet(t)
    \/ IssUpsert(t)
    \/ IssLabel(t)
    \/ IssAddLabel(t)
    \/ IssAttach(t)
    \/ \E now \in Times : Stamp(t, now)
    \/ UpdateRepo(t)
    \/ Deferred(t)

\* The triggering requests, their cancellation, and the cycles: every
\* goroutine that can take a step is scheduled in the end, and every call to
\* the external source returns.
NextLive ==
    \/ \E now \in Times : AddRepository(FullNameOf("acme", "widgets"), now)
    \/ RefreshRepository("acme", "widgets")
    \/ RefreshAll
    \/ \E t \in Cycles : CancelRequest(t)
    \/ \E t \in Cycles : LiveCycleStep(t)

SpecLive ==
    Init /\ [][NextLive]_vars /\ \A t \in Cycles : WF_vars(LiveCycleStep(t))

\* The cycles next to the status requests, the triggering requests and the
\* deletion of the repository: every goroutine that can take a step is
\* scheduled in the end, and every call to the external source (the fetches
\* of a cycle, the rate limit of a status request) returns.
NextProgress ==
    \/ \E now \in Times : AddRepository(FullNameOf("acme", "widgets"), now)
    \/ RefreshRepository("acme", "widgets")
    \/ RefreshAll
    \/ DeleteRepository("acme", "widgets")
    \/ GetStatusList
    \/ GetStatusCount
    \/ \E t \in Cycles : QuietCycleStep(t)

SpecProgress ==
    /\ Init /\ [][NextProgress]_vars
    /\ \A t \in Cycles : WF_vars(QuietCycleStep(t))
    /\ WF_vars(GetStatusCount)

\* what the external source may report for a repository: any owner login,
\* any name and any full name
GhReports ==
    [Owner : Owners, Name : Names, FullName : RepoKeys, Description : {""}]

\* Requests to add acme/widgets, the external source reporting the
\* repository as it pleases, and the cycles the requests start.
NextReport ==
    \/ \E c \in AddCallers : AddBegin(c, FullNameOf("acme", "widgets"))
    \/ \E c \in AddCallers, ghRepo \in GhReports, ghErr \in BOOLEAN :
          AddFetchReturn(c, ghRepo, ghErr)
    \/ \E c \in AddCallers, now \in Times : AddInsert(c, now)
    \/ \E t \in Cycles : LiveCycleStep(t)

SpecReport == Init /\ [][NextReport]_vars

\* the descriptions the repository has over time at the external source
Descriptions == {"v1", "v2"}

\* acme/widgets added, deleted and added again while the external source
\* changes its description, next to the cycles the requests start.
NextReadd ==
    \/ \E c \in AddCallers : AddBegin(c, FullNameOf("acme", "widgets"))
    \/ \E c \in AddCallers, d \in Descriptions, ghErr \in BOOLEAN :
          AddFetchReturn(c, GhDescribed(adds[c].owner, adds[c].name, d), ghErr)
    \/ \E c \in AddCallers, now \in Times : AddInsert(c, now)
    \/ DeleteRepository("acme", "widgets")
    \/ \E t \in Cycles : QuietCycleStep(t)

SpecReadd == Init /\ [][NextReadd]_vars

\* the pages the external source returns in SpecBatch: two items, the first
\* with two labels
BatchPullRequests ==
    {<<[Number |-> 1, State |-> "open", MergedAt |-> "nil",
        Labels |-> <<"bug", "ui">>],
       [Number |-> 2, State |-> "open", MergedAt |-> "nil",
        Labels |-> <<"bug">>]>>}
BatchIssues ==
    {<<[Number |-> 1, State |-> "open", Labels |-> <<"bug", "ui">>],
       [Number |-> 2, State |-> "open", Labels |-> <<>>]>>}

BatchCycleStep(t) ==
    \/ MarkSyncing(t)
    \/ GetRepo(t)
    \/ MarkError(t)
    \/ PRGetRepo(t)
    \/ PRFetchReturn(t, BatchPullRequests)
    \/ PRGet(t)
    \/ PRUpsert(t)
    \/ PRLabel(t)
    \/ PRAddLabel(t)
    \/ PRAttach(t)
    \/ IssGetRepo(t)
    \/ IssFetchReturn(t, BatchIssues)
    \/ IssGet(t)
    \/ IssUpsert(t)
    \/ IssLabel(t)
    \/ IssAddLabel(t)
    \/ IssAttach(t)
    \/ \E now \in Times : Stamp(t, now)
    \/ UpdateRepo(t)
    \/ Deferred(t)

\* One repository, tracked, refreshed and deleted, and its sync cycles, each
\* fetching a batch of two items.
NextBatch ==
    \/ \E now \in Times : AddRepository(FullNameOf("acme", "widgets"), now)
    \/ RefreshRepository("acme", "widgets")
    \/ DeleteRepository("acme", "widgets")
    \/ \E t \in Cycles : BatchCycleStep(t)

SpecBatch == Init /\ [][NextBatch]_vars

----------------------------------------------------------------------------
\* The Cache under a client that calls its operations directly (db.Store).
\* Every operation holds c.mu from its first statement to its return, so a
\* call is one step.  `call` records the last operation, its error, and
\* whether it left the store as it was.  The listings change nothing and
\* are operators (CacheListPullRequests, CacheListPullRequestLabels, ...)
\* that the properties apply to the states reached.

serviceVars == <<mu, syncStatus, syncMutex, clock, cyc, gs, qry, fdb, adds>>

\* `same`: the call left the collections of the store as they were; `repo`:
\* the *models.Repository passed to the call or returned by it (0: none)
CalledRepo(op, err, same, repo) ==
    [op |-> op, err |-> err, same |-> same, repo |-> repo]
Called(op, err, same) == CalledRepo(op, err, same, 0)

\* the client builds a models.Repository
NewRepository(owner, name) ==
    /\ Len(heap) < MaxObjs
    /\ FirstUse(FullNameOf(owner, name))
    /\ heap' = Append(heap, [Owner |-> owner, Name |-> name,
                             FullName |-> FullNameOf(owner, name),
                             LastSyncedAt |-> Len(heap) + 1,
                             Description |-> ""])
    /\ call' = Called("NewRepository", ErrNone, FALSE)
    /\ UNCHANGED <<repositories, pullRequests, issues, labels, prLabels,
                   issueLabels, serviceVars>>

StoreAddRepository(repo) ==
    /\ mu = MuFree
    /\ LET r == CacheAddRepository(repo, heap[repo]) IN
        /\ repositories' = r.repositories
        /\ pullRequests' = r.pullRequests
        /\ issues' = r.issues
        /\ prLabels' = r.prLabels
        /\ issueLabels' = r.issueLabels
        /\ call' = CalledRepo("AddRepository", r.err,
               repositories' = repositories /\ pullRequests' = pullRequests
               /\ issues' = issues /\ prLabels' = prLabels
               /\ issueLabels' = issueLabels, repo)
    /\ UNCHANGED <<heap, labels, serviceVars>>

StoreGetRepository(owner, name) ==
    /\ mu.w = Unlocked
    /\ LET r == CacheGetRepository(owner, name) IN
        call' = CalledRepo("GetRepository", r.err, TRUE, r.repo)
    /\ UNCHANGED <<storeVars, serviceVars>>

StoreUpdateRepository(repo) ==
    /\ mu = MuFree
    /\ LET r == CacheUpdateRepository(repo) IN
        /\ repositories' = r.repositories
        /\ call' = CalledRepo("UpdateRepository", r.err,
               repositories' = repositories, repo)
    /\ UNCHANGED <<heap, pullRequests, issues, labels, prLabels, issueLabels,
                   serviceVars>>

StoreDeleteRepository(owner, name) ==
    /\ mu = MuFree
    /\ LET r == CacheDeleteRepository(owner, name) IN
        /\ repositories' = r.repositories
        /\ pullRequests' = r.pullRequests
        /\ issues' = r.issues
        /\ prLabels' = r.prLabels
        /\ issueLabels' = r.issueLabels
        /\ call' = Called("DeleteRepository", r.err,
               repositories' = repositories /\ pullRequests' = pullRequests
               /\ issues' = issues /\ prLabels' = prLabels
               /\ issueLabels' = issueLabels)
    /\ UNCHANGED <<heap, labels, serviceVars>>

StoreAddPullRequest(pr) ==
    /\ mu = MuFree
    /\ LET r == CacheAddPullRequest(pr) IN
        /\ pullRequests' = r.items
        /\ call' = Called("AddPullRequest", r.err,
               pullRequests' = pullRequests)
    /\ UNCHANGED <<repositories, heap, issues, labels, prLabels, issueLabels,
                   serviceVars>>

StoreUpdatePullRequest(pr) ==
    /\ mu = MuFree
    /\ LET r == CacheUpdatePullRequest(pr) IN
        /\ pullRequests' = r.items
        /\ call' = Called("UpdatePullRequest", r.err,
               pullRequests' = pullRequests)
    /\ UNCHANGED <<repositories, heap, issues, labels, prLabels, issueLabels,
                   serviceVars>>

StoreDeletePullRequest(repoFullName, number) ==
    /\ mu = MuFree
    /\ LET r == CacheDeletePullRequest(repoFullName, number) IN
        /\ pullRequests' = r.items
        /\ prLabels' = r.links
        /\ call' = Called("DeletePullRequest", r.err,
               pullRequests' = pullRequests /\ prLabels' = prLabels)
    /\ UNCHANGED <<repositories, heap, issues, labels, issueLabels, serviceVars>>

StoreAddIssue(issue) ==
    /\ mu = MuFree
    /\ LET r == CacheAddIssue(issue) IN
        /\ issues' = r.items
        /\ call' = Called("AddIssue", r.err,
               issues' = issues)
    /\ UNCHANGED <<repositories, heap, pullRequests, labels, prLabels,
                   issueLabels, serviceVars>>

StoreUpdateIssue(issue) ==
    /\ mu = MuFree
    /\ LET r == CacheUpdateIssue(issue) IN
        /\ issues' = r.items
        /\ call' = Called("UpdateIssue", r.err,
               issues' = issues)
    /\ UNCHANGED <<repositories, heap, pullRequests, labels, prLabels,
                   issueLabels, serviceVars>>

StoreDeleteIssue(repoFullName, number) ==
    /\ mu = MuFree
    /\ LET r == CacheDeleteIssue(repoFullName, number) IN
        /\ issues' = r.items
        /\ issueLabels' = r.links
        /\ call' = Called("DeleteIssue", r.err,
               issues' = issues /\ issueLabels' = issueLabels)
    /\ UNCHANGED <<repositories, heap, pullRequests, labels, prLabels,
                   serviceVars>>

StoreAddLabel(name) ==
    /\ mu = MuFree
    /\ LET r == CacheAddLabel(name) IN
        /\ labels' = r.labels
        /\ call' = Called("AddLabel", r.err,
               labels' = labels)
    /\ UNCHANGED <<repositories, heap, pullRequests, issues, prLabels,
                   issueLabels, serviceVars>>

StoreDeleteLabel(name) ==
    /\ mu = MuFree
    /\ LET r == CacheDeleteLabel(name) IN
        /\ labels' = r.labels
        /\ prLabels' = r.prLabels
        /\ issueLabels' = r.issueLabels
        /\ call' = Called("DeleteLabel", r.err,
               labels' = labels /\ prLabels' = prLabels
               /\ issueLabels' = issueLabels)
    /\ UNCHANGED <<repositories, heap, pullRequests, issues, serviceVars>>

StoreAddPullRequestLabel(repoFullName, prNumber, labelName) ==
    /\ mu = MuFree
    /\ LET r == CacheAddPullRequestLabel(repoFullName, prNumber, labelName) IN
        /\ prLabels' = r.links
        /\ call' = Called("AddPullRequestLabel", r.err,
               prLabels' = prLabels)
    /\ UNCHANGED <<repositories, heap, pullRequests, issues, labels,
                   issueLabels, serviceVars>>

StoreRemovePullRequestLabel(repoFullName, prNumber, labelName) ==
    /\ mu = MuFree
    /\ LET r == CacheRemovePullRequestLabel(repoFullName, prNumber, labelName) IN
        /\ prLabels' = r.links
        /\ call' = Called("RemovePullRequestLabel", r.err,
               prLabels' = prLabels)
    /\ UNCHANGED <<repositories, heap, pullRequests, issues, labels,
                   issueLabels, serviceVars>>

StoreAddIssueLabel(repoFullName, issueNumber, labelName) ==
    /\ mu = MuFree
    /\ LET r == CacheAddIssueLabel(repoFullName, issueNumber, labelName) IN
        /\ issueLabels' = r.links
        /\ call' = Called("AddIssueLabel", r.err,
               issueLabels' = issueLabels)
    /\ UNCHANGED <<repositories, heap, pullRequests, issues, labels, prLabels,
                   serviceVars>>

StoreRemoveIssueLabel(repoFullName, issueNumber, labelName) ==
    /\ mu = MuFree
    /\ LET r == CacheRemoveIssueLabel(repoFullName, issueNumber, labelName) IN
        /\ issueLabels' = r.links
        /\ call' = Called("RemoveIssueLabel", r.err,
               issueLabels' = issueLabels)
    /\ UNCHANGED <<repositories, heap, pullRequests, issues, labels, prLabels,
                   serviceVars>>

\* the records a client passes
StorePullRequests ==
    {PullRequestModel(k, p) : k \in RepoKeys, p \in GhPullRequests}
StoreIssues == {IssueModel(k, i) : k \in RepoKeys, i \in GhIssues}

NextStore ==
    \/ \E o \in Owners, n \in Names : NewRepository(o, n)
    \/ \E repo \in DOMAIN heap : StoreAddRepository(repo)
    \/ \E o \in Owners, n \in Names : StoreGetRepository(o, n)
    \/ \E repo \in DOMAIN heap : StoreUpdateRepository(repo)
    \/ \E o \in Owners, n \in Names : StoreDeleteRepository(o, n)
    \/ \E pr \in StorePullRequests : StoreAddPullRequest(pr)
    \/ \E pr \in StorePullRequests : StoreUpdatePullRequest(pr)
    \/ \E k \in RepoKeys, n \in Numbers : StoreDeletePullRequest(k, n)
    \/ \E issue \in StoreIssues : StoreAddIssue(issue)
    \/ \E issue \in StoreIssues : StoreUpdateIssue(issue)
    \/ \E k \in RepoKeys, n \in Numbers : StoreDeleteIssue(k, n)
    \/ \E l \in LabelNames : StoreAddLabel(l)
    \/ \E l \in LabelNames : StoreDeleteLabel(l)
    \/ \E k \in RepoKeys, n \in Numbers, l \in LabelNames :
          StoreAddPullRequestLabel(k, n, l)
    \/ \E k \in RepoKeys, n \in Numbers, l \in LabelNames :
          StoreRemovePullRequestLabel(k, n, l)
    \/ \E k \in RepoKeys, n \in Numbers, l \in LabelNames :
          StoreAddIssueLabel(k, n, l)
    \/ \E k \in RepoKeys, n \in Numbers, l \in LabelNames :
          StoreRemoveIssueLabel(k, n, l)

SpecStore == Init /\ [][NextStore]_vars

----------------------------------------------------------------------------
\* The query engine over a store that a client fills: acme/widgets gets
\* three pull requests and two issues, acme/gadgets one pull request; a
\* repository may be deleted while no request is in progress and while one
\* is.

\* models.PullRequest as syncPullRequests builds it, with the fields the
\* query engine reads
QueryPullRequest(repoFullName, number, state, mergedAt, login, createdAt) ==
    [RepositoryFullName |-> repoFullName, Number |-> number, State |-> state,
     MergedAt |-> mergedAt, UserLogin |-> login, CreatedAt |-> createdAt]

\* models.Issue as syncIssues builds it
QueryIssue(repoFullName, number, state, login, createdAt) ==
    [RepositoryFullName |-> repoFullName, Number |-> number, State |-> state,
     UserLogin |-> login, CreatedAt |-> createdAt]

QueryPullRequests ==
    {QueryPullRequest(FullNameOf("acme", "widgets"), 1, "open", "nil", "Alice", 1),
     QueryPullRequest(FullNameOf("acme", "widgets"), 2, "open", "nil", "bob", 2),
     QueryPullRequest(FullNameOf("acme", "widgets"), 3, "closed", "set", "Alice", 2),
     QueryPullRequest(FullNameOf("acme", "gadgets"), 1, "open", "nil", "bob", 1)}

QueryIssues ==
    {QueryIssue(FullNameOf("acme", "widgets"), 1, "open", "Alice", 1),
     QueryIssue(FullNameOf("acme", "widgets"), 2, "closed", "bob", 2)}

\* the items of a repository arrive by ascending number
NextNumber(items, it) ==
    /\ it.RepositoryFullName \in DOMAIN items
    /\ it.Number = Cardinality(DOMAIN items[it.RepositoryFullName]) + 1

\* filter.Repo of a request: none, a tracked or untracked repository, a
\* string with an empty name, and strings of one and of three parts
QueryScopes ==
    {<<>>} \cup RepoKeys
           \cup {<<"acme", "/">>, <<"widgets">>, <<"acme", "/", "widgets", "/", "x">>}

\* the other fields of the filter
QueryFilters ==
    [State : {"", "OPEN", "closed"}, Author : {"", "ALICE"},
     Direction : {"asc", "desc", ""}, Page : 1..MaxPage, PerPage : 1..MaxPerPage]

\* the orders in which the listing of the loop's next turn may visit the
\* items of its repository
QueryListOrders ==
    IF qry.pc = "listing"
    THEN ListOrders(QueryItems(qry.kind), heap[qry.repos[qry.i]].FullName)
    ELSE {}

\* the arrangements sort.Slice may leave the filtered items in
QuerySorts(filter) ==
    IF qry.pc = "collected"
    THEN SortResults(QueryFilter(qry.all, filter.State, filter.Author),
                     filter.Direction)
    ELSE {}

NextQuery ==
    \/ /\ qry.pc = "idle"
       /\ \/ \E o \in Owners, n \in Names : NewRepository(o, n)
          \/ \E repo \in DOMAIN heap : StoreAddRepository(repo) /\ call'.err = ErrNone
          \/ \E pr \in QueryPullRequests :
                NextNumber(pullRequests, pr) /\ StoreAddPullRequest(pr)
          \/ \E issue \in QueryIssues :
                NextNumber(issues, issue) /\ StoreAddIssue(issue)
    \/ /\ qry.pc # "returned"
       /\ \E o \in Owners, n \in Names :
             StoreDeleteRepository(o, n) /\ call'.err = ErrNone
    \/ \E kind \in {"pr", "iss"}, scope \in QueryScopes,
          order \in RangeOrders(repositories) : QueryResolve(kind, scope, order)
    \/ \E order \in QueryListOrders : QueryList(order)
    \/ \E filter \in QueryFilters :
          \E sorted \in QuerySorts(filter) : QueryReturn(filter, sorted)
    \/ QueryForget

SpecQuery == Init /\ [][NextQuery]_vars

----------------------------------------------------------------------------
\* The query engine over a repository that holds as many pull requests as
\* the Service lists in one call, and one more.

BulkSize == ServicePerPage + 1

BulkPullRequest(number) ==
    QueryPullRequest(FullNameOf("acme", "widgets"), number, "open", "nil",
                     "Alice", 1)

\* the map is visited in the order of the numbers
Ascending(items, repoFullName) ==
    [x \in 1..Cardinality(DOMAIN items[repoFullName]) |-> x]

BulkFilter == [State |-> "OPEN", Author |-> "", Direction |-> "", Page |-> 1,
               PerPage |-> MaxPerPage]

NextBulk ==
    \/ /\ qry.pc = "idle"
       /\ \/ heap = <<>> /\ NewRepository("acme", "widgets")
          \/ \E repo \in DOMAIN heap : StoreAddRepository(repo) /\ call'.err = ErrNone
          \/ /\ FullNameOf("acme", "widgets") \in DOMAIN pullRequests
             /\ LET number == Cardinality(DOMAIN pullRequests[
                                  FullNameOf("acme", "widgets")]) + 1
                IN /\ number <= BulkSize
                   /\ StoreAddPullRequest(BulkPullRequest(number))
    \/ /\ FullNameOf("acme", "widgets") \in DOMAIN pullRequests
       /\ Cardinality(DOMAIN pullRequests[FullNameOf("acme", "widgets")])
             >= ServicePerPage
       /\ \/ \E scope \in {<<>>, FullNameOf("acme", "widgets")} :
                QueryResolve("pr", scope, <<FullNameOf("acme", "widgets")>>)
          \/ /\ qry.pc = "listing"
             /\ QueryList(Ascending(pullRequests, FullNameOf("acme", "widgets")))
          \/ QueryReturn(BulkFilter,
                         QueryFilter(qry.all, BulkFilter.State, BulkFilter.Author))
          \/ QueryForget

SpecBulk == Init /\ [][NextBulk]_vars

----------------------------------------------------------------------------
\* One client drives the Cache and the file-backed DB with the same calls:
\* every action is one call made on both, and `call` keeps what each of
\* them returned.

\* what a call returned: the error, and for a listing the page and the total
Returned(err, items, total) == [err |-> err, items |-> items, total |-> total]

\* the call op, with what the Cache and what the DB returned; page and
\* perPage are 0 when the call is no listing
CalledBoth(op, cache, db, page, perPage) ==
    [op |-> op, err |-> cache.err, same |-> FALSE, repo |-> 0,
     items |-> cache.items, total |-> cache.total, db |-> db,
     page |-> page, perPage |-> perPage]

BothAddRepository(repo) ==
    /\ mu = MuFree
    /\ LET c == CacheAddRepository(repo, heap[repo])
           d == DBAddRepository(repo, heap[repo])
       IN /\ repositories' = c.repositories
          /\ pullRequests' = c.pullRequests
          /\ issues' = c.issues
          /\ prLabels' = c.prLabels
          /\ issueLabels' = c.issueLabels
          /\ fdb' = d.db
          /\ call' = CalledBoth("AddRepository", Returned(c.err, <<>>, 0),
                                Returned(d.err, <<>>, 0), 0, 0)
    /\ UNCHANGED <<heap, labels, mu, syncStatus, syncMutex, clock, cyc, gs,
                   qry, adds>>

BothUpdateRepository(repo) ==
    /\ mu = MuFree
    /\ LET c == CacheUpdateRepository(repo)
           d == DBUpdateRepository(repo, heap[repo])
       IN /\ repositories' = c.repositories
          /\ fdb' = d.db
          /\ call' = CalledBoth("UpdateRepository", Returned(c.err, <<>>, 0),
                                Returned(d.err, <<>>, 0), 0, 0)
    /\ UNCHANGED <<heap, pullRequests, issues, labels, prLabels, issueLabels,
                   mu, syncStatus, syncMutex, clock, cyc, gs, qry, adds>>

BothDeleteRepository(owner, name) ==
    /\ mu = MuFree
    /\ LET c == CacheDeleteRepository(owner, name)
           d == DBDeleteRepository(owner, name)
       IN /\ repositories' = c.repositories
          /\ pullRequests' = c.pullRequests
          /\ issues' = c.issues
          /\ prLabels' = c.prLabels
          /\ issueLabels' = c.issueLabels
          /\ fdb' = d.db
          /\ call' = CalledBoth("DeleteRepository", Returned(c.err, <<>>, 0),
                                Returned(d.err, <<>>, 0), 0, 0)
    /\ UNCHANGED <<heap, labels, mu, syncStatus, syncMutex, clock, cyc, gs,
                   qry, adds>>

BothListRepositories(page, perPage, order, dbOrder) ==
    /\ mu.w = Unlocked
    /\ order \in RangeOrders(repositories)
    /\ dbOrder \in RangeOrders(fdb.repositories)
    /\ LET c == CacheListRepositoriesPage(page, perPage, order)
           d == DBListRepositories(page, perPage, dbOrder)
       IN call' = CalledBoth("ListRepositories",
                             Returned(c.err, c.repos, c.total),
                             Returned(d.err, d.repos, d.total), page, perPage)
    /\ UNCHANGED <<storeVars, mu, syncStatus, syncMutex, clock, cyc, gs, qry,
                   fdb, adds>>

\* the list of numbers has room for one more
Room(numbers, repoFullName) ==
    repoFullName \in DOMAIN numbers
        => Len(numbers[repoFullName]) < MaxListed

BothAddPullRequest(pr) ==
    /\ mu = MuFree
    /\ Room(fdb.repoPRs, pr.RepositoryFullName)
    /\ LET c == CacheAddPullRequest(pr)
           d == DBAddItem(fdb.pullRequests, fdb.repoPRs, pr)
       IN /\ pullRequests' = c.items
          /\ fdb' = [fdb EXCEPT !.pullRequests = d.items,
                                !.repoPRs = d.numbers]
          /\ call' = CalledBoth("AddPullRequest", Returned(c.err, <<>>, 0),
                                Returned(d.err, <<>>, 0), 0, 0)
    /\ UNCHANGED <<repositories, heap, issues, labels, prLabels, issueLabels,
                   mu, syncStatus, syncMutex, clock, cyc, gs, qry, adds>>

BothUpdatePullRequest(pr) ==
    /\ mu = MuFree
    /\ Room(fdb.repoPRs, pr.RepositoryFullName)
    /\ LET c == CacheUpdatePullRequest(pr)
           d == DBUpdateItem(fdb.pullRequests, fdb.repoPRs, pr)
       IN /\ pullRequests' = c.items
          /\ fdb' = [fdb EXCEPT !.pullRequests = d.items,
                                !.repoPRs = d.numbers]
          /\ call' = CalledBoth("UpdatePullRequest", Returned(c.err, <<>>, 0),
                                Returned(d.err, <<>>, 0), 0, 0)
    /\ UNCHANGED <<repositories, heap, issues, labels, prLabels, issueLabels,
                   mu, syncStatus, syncMutex, clock, cyc, gs, qry, adds>>

BothDeletePullRequest(repoFullName, number) ==
    /\ mu = MuFree
    /\ LET c == CacheDeletePullRequest(repoFullName, number)
           d == DBDeleteItem(fdb.pullRequests, fdb.repoPRs, repoFullName,
                             number)
       IN /\ pullRequests' = c.items
          /\ prLabels' = c.links
          /\ fdb' = [fdb EXCEPT !.pullRequests = d.items,
                                !.repoPRs = d.numbers]
          /\ call' = CalledBoth("DeletePullRequest", Returned(c.err, <<>>, 0),
                                Returned(d.err, <<>>, 0), 0, 0)
    /\ UNCHANGED <<repositories, heap, issues, labels, issueLabels, mu,
                   syncStatus, syncMutex, clock, cyc, gs, qry, adds>>

BothListPullRequests(repoFullName, page, perPage, order) ==
    /\ mu.w = Unlocked
    /\ order \in ListOrders(pullRequests, repoFullName)
    /\ LET c == CacheListPullRequests(repoFullName, page, perPage, order)
           d == DBListItems(fdb.pullRequests, fdb.repoPRs, repoFullName,
                            page, perPage)
       IN call' = CalledBoth("ListPullRequests", c, d, page, perPage)
    /\ UNCHANGED <<storeVars, mu, syncStatus, syncMutex, clock, cyc, gs, qry,
                   fdb, adds>>

BothAddIssue(issue) ==
    /\ mu = MuFree
    /\ Room(fdb.repoIssues, issue.RepositoryFullName)
    /\ LET c == CacheAddIssue(issue)
           d == DBAddItem(fdb.issues, fdb.repoIssues, issue)
       IN /\ issues' = c.items
          /\ fdb' = [fdb EXCEPT !.issues = d.items, !.repoIssues = d.numbers]
          /\ call' = CalledBoth("AddIssue", Returned(c.err, <<>>, 0),
                                Returned(d.err, <<>>, 0), 0, 0)
    /\ UNCHANGED <<repositories, heap, pullRequests, labels, prLabels,
                   issueLabels, mu, syncStatus, syncMutex, clock, cyc, gs,
                   qry, adds>>

BothUpdateIssue(issue) ==
    /\ mu = MuFree
    /\ Room(fdb.repoIssues, issue.RepositoryFullName)
    /\ LET c == CacheUpdateIssue(issue)
           d == DBUpdateItem(fdb.issues, fdb.repoIssues, issue)
       IN /\ issues' = c.items
          /\ fdb' = [fdb EXCEPT !.issues = d.items, !.repoIssues = d.numbers]
          /\ call' = CalledBoth("UpdateIssue", Returned(c.err, <<>>, 0),
                                Returned(d.err, <<>>, 0), 0, 0)
    /\ UNCHANGED <<repositories, heap, pullRequests, labels, prLabels,
                   issueLabels, mu, syncStatus, syncMutex, clock, cyc, gs,
                   qry, adds>>

BothDeleteIssue(repoFullName, number) ==
    /\ mu = MuFree
    /\ LET c == CacheDeleteIssue(repoFullName, number)
           d == DBDeleteItem(fdb.issues, fdb.repoIssues, repoFullName, number)
       IN /\ issues' = c.items
          /\ issueLabels' = c.links
          /\ fdb' = [fdb EXCEPT !.issues = d.items, !.repoIssues = d.numbers]
          /\ call' = CalledBoth("DeleteIssue", Returned(c.err, <<>>, 0),
                                Returned(d.err, <<>>, 0), 0, 0)
    /\ UNCHANGED <<repositories, heap, pullRequests, labels, prLabels, mu,
                   syncStatus, syncMutex, clock, cyc, gs, qry, adds>>

BothListIssues(repoFullName, page, perPage, order) ==
    /\ mu.w = Unlocked
    /\ order \in ListOrders(issues, repoFullName)
    /\ LET c == CacheListIssues(repoFullName, page, perPage, order)
           d == DBListItems(fdb.issues, fdb.repoIssues, repoFullName, page,
                            perPage)
       IN call' = CalledBoth("ListIssues", c, d, page, perPage)
    /\ UNCHANGED <<storeVars, mu, syncStatus, syncMutex, clock, cyc, gs, qry,
                   fdb, adds>>

\* the records the client passes: pull request #1 of acme/widgets, open or
\* closed, and issue #1 of acme/widgets
BothPullRequests ==
    {QueryPullRequest(FullNameOf("acme", "widgets"), 1, st, "nil", "bob", 1) :
        st \in {"open", "closed"}}
BothIssues == {QueryIssue(FullNameOf("acme", "widgets"), 1, "open", "bob", 1)}

\* the orders in which the repositories of a map may be visited
BothOrders(m) == RangeOrders(m)

NextBoth ==
    \/ \E o \in Owners, n \in Names : NewRepository(o, n)
    \/ \E repo \in DOMAIN heap : BothAddRepository(repo)
    \/ \E repo \in DOMAIN heap : BothUpdateRepository(repo)
    \/ \E o \in Owners, n \in Names : BothDeleteRepository(o, n)
    \/ \E page \in 1..MaxPage, perPage \in 1..MaxPerPage :
          \E order \in BothOrders(repositories),
             dbOrder \in BothOrders(fdb.repositories) :
             BothListRepositories(page, perPage, order, dbOrder)
    \/ \E pr \in BothPullRequests : BothAddPullRequest(pr)
    \/ \E pr \in BothPullRequests : BothUpdatePullRequest(pr)
    \/ \E k \in RepoKeys, n \in Numbers : BothDeletePullRequest(k, n)
    \/ \E k \in RepoKeys, page \in 1..MaxPage, perPage \in 1..MaxPerPage :
          \E order \in ListOrders(pullRequests, k) :
             BothListPullRequests(k, page, perPage, order)
    \/ \E issue \in BothIssues : BothAddIssue(issue)
    \/ \E issue \in BothIssues : BothUpdateIssue(issue)
    \/ \E k \in RepoKeys, n \in Numbers : BothDeleteIssue(k, n)
    \/ \E k \in RepoKeys, page \in 1..MaxPage, perPage \in 1..MaxPerPage :
          \E order \in ListOrders(issues, k) :
             BothListIssues(k, page, perPage, order)

SpecBoth == Init /\ [][NextBoth]_vars

----------------------------------------------------------------------------
\* What the properties speak of.

\* another cycle for the repository of cycle t is in flight
OtherInFlight(t) ==
    \E u \in Cycles \ {t} : InFlight(u) /\ KeyOf(u) = KeyOf(t)

\* the step in which syncRepository of cycle t returns
Returns(t) == cyc[t].pc = "deferred" /\ cyc'[t].pc = "done"

\* the step in which the last store operation of cycle t succeeds, after
\* which syncRepository returns nil
Succeeds(t) == cyc[t].pc = "update" /\ cyc'[t].outcome = "ok"

\* the repository is tracked by the store
Tracked(key) == key \in DOMAIN repositories

\* the LastSyncedAt of the tracked repository `key`
LastSyncedAtOf(key) == heap[repositories[key]].LastSyncedAt

\* the status entries GetStatus would have to count as syncing: those that
\* are no error
NonErrorCount ==
    Cardinality({k \in DOMAIN syncStatus : ~HasPrefix(syncStatus[k], StrError)})

\* the pull request / the issue the store holds for (key, number) is `rec`
HoldsPullRequest(prs, key, rec) ==
    /\ key \in DOMAIN prs
    /\ rec.Number \in DOMAIN prs[key]
    /\ prs[key][rec.Number] = rec

HoldsIssue(iss, key, rec) ==
    /\ key \in DOMAIN iss
    /\ rec.Number \in DOMAIN iss[key]
    /\ iss[key][rec.Number] = rec

\* `name` is associated with item (key, number) in `links`
Linked(links, key, number, name) ==
    /\ key \in DOMAIN links
    /\ number \in DOMAIN links[key]
    /\ name \in links[key][number]

Fetching(t) == cyc[t].pc \in {"prFetching", "issFetching"}

----------------------------------------------------------------------------
\* C1: when a cycle returns after its pull-request fetch failed, and no
\* other cycle for the repository was in flight, the repository's status entry
\* is still present with an error value, so that a status request counts one
\* errored repository.
C1_ErrorStatusKept ==
    [][\A t \in Cycles :
          (/\ Returns(t)
           /\ cyc[t].prErr = "failed to list pull requests"
           /\ ~cyc[t].overlapped
           /\ ~OtherInFlight(t))
          => /\ KeyOf(t) \in DOMAIN syncStatus'
             /\ HasPrefix(syncStatus'[KeyOf(t)], StrError)
             /\ ErrorCount' >= 1]_vars

\* C2: a cycle whose pull-request stage failed has fetched no issues, has
\* written no issue and no issue label, has not written LastSyncedAt, and,
\* when it ran alone and the repository is tracked, LastSyncedAt is the value
\* the cycle found.
C2_PRFailureStopsCycle ==
    \A t \in Cycles :
        cyc[t].prErr # ErrNone
        => /\ ~cyc[t].fetchedIssues
           /\ ~cyc[t].wroteIssues
           /\ ~cyc[t].stamped
           /\ cyc[t].pc \in {"errPR", "deferred"}
           /\ (~cyc[t].overlapped /\ Tracked(KeyOf(t)))
              => LastSyncedAtOf(KeyOf(t)) = cyc[t].startLS

C2_Witness ==
    \E t \in Cycles :
        /\ cyc[t].pc = "deferred"
        /\ cyc[t].prErr = "failed to list pull requests"
        /\ ~cyc[t].overlapped
        /\ Tracked(KeyOf(t))
        /\ LastSyncedAtOf(KeyOf(t)) = cyc[t].startLS

\* C3: whenever a cycle is about to read or write a pull request, a label or
\* a pull-request label, it has fetched no issues and written none; it
\* fetches issues only after its pull-request stage returned without error;
\* it writes LastSyncedAt only after both stages returned without error; a
\* cycle whose issue stage failed has not written LastSyncedAt.
C3_StageOrder ==
    \A t \in Cycles :
        /\ cyc[t].pc \in PRLoopPcs
           => ~cyc[t].fetchedIssues /\ ~cyc[t].wroteIssues
        /\ (cyc[t].fetchedIssues \/ cyc[t].wroteIssues)
           => cyc[t].prDone
        /\ cyc[t].stamped => cyc[t].prDone /\ cyc[t].issDone
        /\ cyc[t].pc \in {"stamp", "update"} => cyc[t].prDone /\ cyc[t].issDone
        /\ cyc[t].pc \in {"errIss"} => ~cyc[t].stamped
        /\ cyc[t].outcome = "issues" => ~cyc[t].stamped /\ ~cyc[t].issDone

C3_Witness ==
    \E t \in Cycles :
        /\ cyc[t].pc = "deferred"
        /\ cyc[t].outcome = "ok"
        /\ cyc[t].wrotePR
        /\ cyc[t].fetchedIssues
        /\ cyc[t].wroteIssues
        /\ cyc[t].stamped

C5_LabelsAttached ==
    [][\A t \in Cycles :
          (Succeeds(t) /\ ~cyc'[t].overlapped)
          => /\ \A k \in 1..Len(cyc[t].seenPRs) :
                  \A l \in 1..Len(cyc[t].seenPRs[k].Labels) :
                      /\ cyc[t].seenPRs[k].Labels[l] \in labels'
                      /\ Linked(prLabels', KeyOf(t), cyc[t].seenPRs[k].Number,
                                cyc[t].seenPRs[k].Labels[l])
             /\ \A k \in 1..Len(cyc[t].seenIssues) :
                  \A l \in 1..Len(cyc[t].seenIssues[k].Labels) :
                      /\ cyc[t].seenIssues[k].Labels[l] \in labels'
                      /\ Linked(issueLabels', KeyOf(t),
                                cyc[t].seenIssues[k].Number,
                                cyc[t].seenIssues[k].Labels[l])]_vars

\* C6: the syncing count of a status snapshot counts no entry whose status
\* is an error: it is the number of entries that are no error.
C6_ErrorNotCountedSyncing ==
    [][(gs.pc = "listed" /\ gs'.pc = "idle" /\ gs'.result[1].err = ErrNone)
       => gs'.result[1].syncing = NonErrorCount]_vars

C8_ResultFixedAtDispatch ==
    [][\A t \in Cycles :
          /\ (cyc[t].pc = "unused" /\ cyc'[t].pc # "unused")
             => cyc'[t].pc = "dispatched" /\ cyc'[t].result = "ok"
          /\ cyc[t].pc # "unused"
             => cyc'[t].result = cyc[t].result /\ cyc[t].result = "ok"]_vars

C8_Witness ==
    \E t \in Cycles :
        /\ cyc[t].pc = "done"
        /\ cyc[t].outcome \in {"repo", "pr", "issues", "update"}
        /\ cyc[t].result = "ok"

C10_NoLockAcrossFetch ==
    \A t \in Cycles :
        Fetching(t)
        => /\ syncMutex # t
           /\ mu.w # t
           /\ t \notin mu.r
           /\ gs.pc = "idle" => ENABLED GetStatusList
           /\ gs.pc = "listed" => ENABLED GetStatusCount

C10_Witness ==
    \E t \in Cycles :
        /\ cyc[t].pc = "issFetching"
        /\ gs.pc = "listed"
        /\ gs.total = 1

----------------------------------------------------------------------------
\* the numbers of the records of a page
NumbersOf(page) == {page[x].Number : x \in DOMAIN page}

\* a listing of the collection `items` of the repository `key`: no error, no
\* number twice on a page, and the total is the number of numbers stored
ListingAgrees(items, key) ==
    LET stored == {n \in Numbers : CacheGetItem(items, key, n) = ErrNone} IN
    \A order \in ListOrders(items, key) :
        /\ \A page \in 1..MaxPage, perPage \in 1..MaxPerPage :
              LET r == CacheListItems(items, key, page, perPage, order) IN
              /\ r.err = ErrNone
              /\ r.total = Cardinality(stored)
              /\ Cardinality(NumbersOf(r.items)) = Len(r.items)
        /\ LET r == CacheListItems(items, key, 1, ServicePerPage, order) IN
           /\ r.err = ErrNone
           /\ Len(r.items) = r.total
           /\ NumbersOf(r.items) = stored

\* C11: whatever the interleaving of the cycles, two cycles of one repository
\* included, the store holds one record at most for a repository and a
\* number, and the total that ListPullRequests and ListIssues report is the
\* number of distinct numbers stored.
C11_OneRecordPerNumber ==
    \A key \in DOMAIN repositories :
        /\ ListingAgrees(pullRequests, key)
        /\ ListingAgrees(issues, key)

\* two cycles of one repository have both written the same pull request
C11_Witness ==
    \E t, u \in Cycles :
        /\ t # u
        /\ cyc[t].overlapped /\ cyc[u].overlapped
        /\ cyc[t].wrotePR /\ cyc[u].wrotePR
        /\ cyc[t].fullName = cyc[u].fullName
        /\ cyc[t].fullName \in DOMAIN repositories
        /\ \E order \in ListOrders(pullRequests, cyc[t].fullName) :
              CacheListPullRequests(cyc[t].fullName, 1, ServicePerPage, order).total = 1

\* a step of cycle t inside the loop of a stage (`items` its batch, `loop`
\* the positions of the loop, `upsert` those of the insert and the update,
\* `first` the first position of an item, `stageEnd` the step after the
\* stage returned nil): the cycle stays at its item, or goes to the next
\* item, or has handled the last item and the stage returns nil
LoopStepOk(t, stage, items, loop, upsert, first, stageEnd) ==
    LET c == cyc[t]
        d == cyc'[t]
        leaves == IF c.pc \in upsert
                  THEN Len(items[c.i].Labels) = 0 \/ <<stage, c.i, 0>> \in d.skipped
                  ELSE c.pc # first /\ c.j = Len(items[c.i].Labels)
    IN (c.pc \in loop /\ d.pc # c.pc)
       => /\ d.err = ErrNone /\ d.prErr = ErrNone
          /\ \/ d.pc \in loop /\ d.i = c.i /\ d.j \in {c.j, c.j + 1}
             \/ d.pc = first /\ d.i = c.i + 1 /\ d.j = 0 /\ leaves
             \/ /\ d.pc = stageEnd /\ c.i = Len(items) /\ leaves
                /\ IF stage = "pr" THEN d.prDone ELSE d.issDone

\* C12: when the insert or the update of a fetched pull request or issue
\* fails, or the creation or the attachment of one of its labels, the cycle
\* goes on with the rest of the batch, item by item and label by label, and
\* the stage returns nil: no such failure becomes the error of the cycle.
C12_FailuresSkipped ==
    [][\A t \in Cycles :
          /\ LoopStepOk(t, "pr", cyc[t].prs, PRLoopPcs, {"prUpdate", "prAdd"},
                        "prGet", "issGetRepo")
          /\ LoopStepOk(t, "iss", cyc[t].issues, IssLoopPcs,
                        {"issUpdate", "issAdd"}, "issGet", "stamp")
      ]_vars

\* the pull request stage of a cycle has returned nil after the write of its
\* first item failed and the creation or the attachment of the first label
\* of its second item failed
C12_Witness ==
    \E t \in Cycles :
        /\ cyc[t].pc = "issGetRepo"
        /\ cyc[t].prDone
        /\ cyc[t].prErr = ErrNone
        /\ {<<"pr", 1, 0>>, <<"pr", 2, 1>>} \subseteq cyc[t].skipped

\* the record GetRepository returns for the key (tracked)
RecordOf(key) == heap[repositories[key]]

\* C13: a cycle changes the record of its repository through store
\* operations only: while the cycle has not called UpdateRepository, a step
\* in which no store operation wrote the repository map leaves the record
\* that the store returns for the repository, its LastSyncedAt included, as
\* it was.
C13_RecordChangedByStoreOnly ==
    [][\A t \in Cycles :
          (/\ InFlight(t)
           /\ cyc[t].pc # "deferred"
           /\ KeyOf(t) \in DOMAIN repositories
           /\ repositories' = repositories)
          => RecordOf(KeyOf(t))' = RecordOf(KeyOf(t))
      ]_vars

\* C14: in every state of the store, whatever the order of the operations,
\* every tracked repository has the child collections AddRepository
\* initialized for it: pull requests, issues, pull request label links and
\* issue label links.
C14_ChildCollectionsPresent ==
    \A key \in DOMAIN repositories :
        /\ key \in DOMAIN pullRequests
        /\ key \in DOMAIN issues
        /\ key \in DOMAIN prLabels
        /\ key \in DOMAIN issueLabels

\* the errors of the Cache that say an entity is absent, and those that say
\* it is there already
IsNotFound(err) == err \in {"repository not found", "not found", "label not found"}
IsAlreadyExists(err) ==
    err \in {"repository already exists", "already exists", "label already exists"}

\* the key under which the Cache files a repository record
RepoKeyOf(rec) == FullNameOf(rec.Owner, rec.Name)

\* in every state: the adds that are refused
RejectedAdds ==
    /\ \A repo \in DOMAIN heap :
          RepoKeyOf(heap[repo]) \in DOMAIN repositories
          => IsAlreadyExists(CacheAddRepository(repo, heap[repo]).err)
    /\ \A pr \in StorePullRequests :
          pr.RepositoryFullName \notin DOMAIN repositories
          => IsNotFound(CacheAddPullRequest(pr).err)
    /\ \A issue \in StoreIssues :
          issue.RepositoryFullName \notin DOMAIN repositories
          => IsNotFound(CacheAddIssue(issue).err)

\* C15: AddRepository of a record whose full name is tracked fails with
\* already-exists, AddPullRequest and AddIssue for a repository that is not
\* tracked fail with not-found, and a call that fails so leaves the store as
\* it was.
C15_RejectedAddsChangeNothing ==
    /\ []RejectedAdds
    /\ [][/\ (call'.op = "AddRepository" /\ IsAlreadyExists(call'.err))
             => UNCHANGED storeVars
          /\ (call'.op \in {"AddPullRequest", "AddIssue"} /\ IsNotFound(call'.err))
             => UNCHANGED storeVars
         ]_vars

\* AddRepository has just been refused for a tracked full name, in a store
\* that holds pull requests
C15_Witness ==
    /\ call.op = "AddRepository"
    /\ IsAlreadyExists(call.err)
    /\ \E key \in DOMAIN pullRequests : DOMAIN pullRequests[key] # {}

\* the collections of the store other than `repositories`, other than
\* `pullRequests`, other than `issues`
ExceptRepositories == <<heap, pullRequests, issues, labels, prLabels, issueLabels>>
ExceptPullRequests == <<repositories, heap, issues, labels, prLabels, issueLabels>>
ExceptIssues == <<repositories, heap, pullRequests, labels, prLabels, issueLabels>>

\* the item is in the collection
Present(items, repoFullName, number) ==
    CacheGetItem(items, repoFullName, number) = ErrNone

\* in every state: update and delete of what is absent return not-found,
\* update of what is present returns nil
AbsentIsNotFound ==
    /\ \A repo \in DOMAIN heap :
          LET err == CacheUpdateRepository(repo).err IN
          IF RepoKeyOf(heap[repo]) \in DOMAIN repositories
          THEN err = ErrNone ELSE IsNotFound(err)
    /\ \A o \in Owners, n \in Names :
          FullNameOf(o, n) \notin DOMAIN repositories
          => IsNotFound(CacheDeleteRepository(o, n).err)
    /\ \A pr \in StorePullRequests :
          LET err == CacheUpdatePullRequest(pr).err IN
          IF Present(pullRequests, pr.RepositoryFullName, pr.Number)
          THEN err = ErrNone ELSE IsNotFound(err)
    /\ \A issue \in StoreIssues :
          LET err == CacheUpdateIssue(issue).err IN
          IF Present(issues, issue.RepositoryFullName, issue.Number)
          THEN err = ErrNone ELSE IsNotFound(err)
    /\ \A k \in RepoKeys, n \in Numbers :
          /\ ~Present(pullRequests, k, n)
             => IsNotFound(CacheDeletePullRequest(k, n).err)
          /\ ~Present(issues, k, n) => IsNotFound(CacheDeleteIssue(k, n).err)

\* C16: UpdateRepository, UpdatePullRequest, UpdateIssue, DeleteRepository,
\* DeletePullRequest and DeleteIssue of an absent entity fail with not-found
\* and leave the store as it was; an update of a present entity replaces the
\* record of that entity and changes nothing else.
C16_UpdateAndDeleteOfAbsent ==
    /\ []AbsentIsNotFound
    /\ [][/\ (/\ call'.op \in {"UpdateRepository", "UpdatePullRequest",
                               "UpdateIssue", "DeleteRepository",
                               "DeletePullRequest", "DeleteIssue"}
              /\ call'.err # ErrNone)
             => IsNotFound(call'.err) /\ UNCHANGED storeVars
          /\ (call'.op = "UpdateRepository" /\ call'.err = ErrNone)
             => /\ UNCHANGED ExceptRepositories
                /\ \E repo \in DOMAIN heap :
                      /\ RepoKeyOf(heap[repo]) \in DOMAIN repositories
                      /\ repositories' =
                            [repositories EXCEPT ![RepoKeyOf(heap[repo])] = repo]
          /\ (call'.op = "UpdatePullRequest" /\ call'.err = ErrNone)
             => /\ UNCHANGED ExceptPullRequests
                /\ \E pr \in StorePullRequests :
                      /\ Present(pullRequests, pr.RepositoryFullName, pr.Number)
                      /\ pullRequests' =
                            [pullRequests EXCEPT
                                ![pr.RepositoryFullName][pr.Number] = pr]
          /\ (call'.op = "UpdateIssue" /\ call'.err = ErrNone)
             => /\ UNCHANGED ExceptIssues
                /\ \E issue \in StoreIssues :
                      /\ Present(issues, issue.RepositoryFullName, issue.Number)
                      /\ issues' =
                            [issues EXCEPT
                                ![issue.RepositoryFullName][issue.Number] = issue]
         ]_vars

\* UpdatePullRequest has just replaced a record, in a store that holds a pull
\* request of each of two repositories and an issue
C16_Witness ==
    /\ call.op = "UpdatePullRequest"
    /\ call.err = ErrNone
    /\ \A k \in RepoKeys : k \in DOMAIN pullRequests /\ DOMAIN pullRequests[k] # {}
    /\ \E k \in DOMAIN issues : DOMAIN issues[k] # {}

\* the two maps agree on the key: both lack it, or both hold the same value
SameAt(m1, m2, k) ==
    /\ k \in DOMAIN m1 <=> k \in DOMAIN m2
    /\ k \in DOMAIN m1 => m1[k] = m2[k]

\* nothing of the repository can be read from the store, and nothing of it
\* is held
Gone(key) ==
    /\ key \notin DOMAIN repositories
    /\ \A n \in Numbers :
          /\ CacheGetPullRequest(key, n) # ErrNone
          /\ CacheGetIssue(key, n) # ErrNone
          /\ CacheListPullRequestLabels(key, n).err # ErrNone
          /\ CacheListIssueLabels(key, n).err # ErrNone
    /\ CacheListPullRequests(key, 1, ServicePerPage, <<>>).err # ErrNone
    /\ CacheListIssues(key, 1, ServicePerPage, <<>>).err # ErrNone
    /\ key \notin DOMAIN pullRequests
    /\ key \notin DOMAIN issues
    /\ key \notin DOMAIN prLabels
    /\ key \notin DOMAIN issueLabels

\* C17: after DeleteRepository has succeeded for a repository, no pull
\* request, issue or label association of it can be read; the record, the
\* pull requests, the issues and the associations of every other repository
\* and every label definition are as they were.
C17_DeleteRepositoryFrame ==
    [][(call'.op = "DeleteRepository" /\ call'.err = ErrNone)
       => \E key \in DOMAIN repositories :
             /\ Gone(key)'
             /\ heap' = heap
             /\ labels' = labels
             /\ \A k \in RepoKeys \ {key} :
                   /\ SameAt(repositories', repositories, k)
                   /\ SameAt(pullRequests', pullRequests, k)
                   /\ SameAt(issues', issues, k)
                   /\ SameAt(prLabels', prLabels, k)
                   /\ SameAt(issueLabels', issueLabels, k)
      ]_vars

\* a repository has just been deleted while the other one holds a labelled
\* pull request and an issue
C17_Witness ==
    /\ call.op = "DeleteRepository"
    /\ call.err = ErrNone
    /\ \E k \in DOMAIN repositories :
          /\ \E n \in Numbers : CacheListPullRequestLabels(k, n).labels # {}
          /\ \E n \in Numbers : Present(issues, k, n)

\* every association of the collection `links` is one of a tracked
\* repository, of an item of it held in `items`, and of a defined label
LinksSound(items, links) ==
    \A k \in DOMAIN links :
        /\ k \in DOMAIN repositories
        /\ \A n \in DOMAIN links[k] :
              /\ Present(items, k, n)
              /\ links[k][n] \subseteq labels

\* an association is added only to an item that exists, of a label that
\* exists
AttachRequires(items, links) ==
    \A k \in RepoKeys, n \in Numbers, l \in LabelNames :
        CacheAddItemLabel(items, links, k, n, l).err = ErrNone
        <=> (k \in DOMAIN repositories /\ Present(items, k, n) /\ l \in labels)

\* C18: in every state of the store every label association is one of a
\* tracked repository, of a pull request or issue of it that exists, and of
\* a label definition that exists: an association is added only when item
\* and label exist, and goes with its item, with its label and with its
\* repository.
C18_AssociationsSound ==
    /\ LinksSound(pullRequests, prLabels)
    /\ LinksSound(issues, issueLabels)
    /\ AttachRequires(pullRequests, prLabels)
    /\ AttachRequires(issues, issueLabels)

\* a pull request has just been deleted from a store that still holds an
\* association of a pull request and one of an issue
C18_Witness ==
    /\ call.op = "DeletePullRequest"
    /\ call.err = ErrNone
    /\ \E k \in DOMAIN prLabels : \E n \in DOMAIN prLabels[k] : prLabels[k][n] # {}
    /\ \E k \in DOMAIN issueLabels :
          \E n \in DOMAIN issueLabels[k] : issueLabels[k][n] # {}

\* whenever an attachment succeeds, the same attachment made again succeeds
\* too and gives the collection the first one gave, with the label attached
\* to the item
AttachTwice(items, links) ==
    \A k \in RepoKeys, n \in Numbers, l \in LabelNames :
        LET first == CacheAddItemLabel(items, links, k, n, l)
            second == CacheAddItemLabel(items, first.links, k, n, l)
        IN first.err = ErrNone
           => /\ second.err = ErrNone
              /\ second.links = first.links
              /\ CacheListItemLabels(items, second.links, k, n).labels
                    = CacheListItemLabels(items, links, k, n).labels \cup {l}

\* C19: attaching to a pull request or issue a label that is attached to it
\* already succeeds and leaves the store as the first attachment left it,
\* with one association of the label and the item.
C19_AttachIdempotent ==
    /\ []AttachTwice(pullRequests, prLabels)
    /\ []AttachTwice(issues, issueLabels)
    /\ [][/\ call'.op = "AddPullRequestLabel"
             => UNCHANGED <<repositories, heap, pullRequests, issues, labels,
                            issueLabels>>
          /\ call'.op = "AddIssueLabel"
             => UNCHANGED <<repositories, heap, pullRequests, issues, labels,
                            prLabels>>
         ]_vars

\* AddPullRequestLabel has just succeeded for a label that was attached
\* already: the store is as it was, and the listing of the pull request
\* shows the label
C19_Witness ==
    /\ call.op = "AddPullRequestLabel"
    /\ call.err = ErrNone
    /\ call.same
    /\ \E k \in RepoKeys, n \in Numbers :
          Cardinality(CacheListPullRequestLabels(k, n).labels) = 1

\* in every state: AddRepository of a record whose key is not tracked
\* returns nil
UntrackedIsAdded ==
    \A repo \in DOMAIN heap :
        RepoKeyOf(heap[repo]) \notin DOMAIN repositories
        => CacheAddRepository(repo, heap[repo]).err = ErrNone

\* C20: for every repository record whose full name is not in the store,
\* AddRepository of the record succeeds, and GetRepository with the owner
\* and the name of the record then succeeds and returns a record equal to
\* it.
C20_AddThenGet ==
    /\ []UntrackedIsAdded
    /\ [][\A repo \in DOMAIN heap, owner \in Owners, name \in Names :
              (/\ call'.op = "AddRepository" /\ call'.err = ErrNone
               /\ call'.repo = repo
               /\ heap[repo].Owner = owner /\ heap[repo].Name = name)
              => LET got == CacheGetRepository(owner, name)'
                 IN /\ got.err = ErrNone
                    /\ heap'[got.repo] = heap[repo]
         ]_vars

\* the record of a second repository has just been added
C20_Witness ==
    /\ call.op = "AddRepository"
    /\ call.err = ErrNone
    /\ Cardinality(DOMAIN repositories) = 2
    /\ CacheGetRepository(heap[call.repo].Owner, heap[call.repo].Name).repo
          = call.repo

----------------------------------------------------------------------------
\* ceil(n / perPage)
PagesOf(n, perPage) == (n + perPage - 1) \div perPage

\* the keys of the elements of a page, in the order of the page
KeysOfPage(r, kind) ==
    [y \in DOMAIN r |-> IF kind = "repo" THEN RepoKeyOf(heap[r[y]])
                        ELSE r[y].Number]

\* what the calls for the pages 1 .. ceil(N/P) + 1 of one collection may
\* return, one call per page, each call with an iteration order of its own:
\* ListPullRequests ("pr") and ListIssues ("iss") of repository k,
\* ListRepositories ("repo")
PageRuns(kind, k, perPage) ==
    LET keys == IF kind = "repo" THEN DOMAIN repositories
                ELSE DOMAIN QueryItems(kind)[k]
        orders == IF kind = "repo" THEN RangeOrders(repositories)
                  ELSE ListOrders(QueryItems(kind), k)
        last == PagesOf(Cardinality(keys), perPage)
        list(page, order) ==
            IF kind = "repo"
            THEN LET r == CacheListRepositoriesPage(page, perPage, order)
                 IN [err |-> r.err, total |-> r.total,
                     keys |-> KeysOfPage(r.repos, kind)]
            ELSE LET r == CacheListItems(QueryItems(kind), k, page, perPage, order)
                 IN [err |-> r.err, total |-> r.total,
                     keys |-> KeysOfPage(r.items, kind)]
    IN {[x \in 1..(last + 1) |-> list(x, ord[x])] :
           ord \in [1..(last + 1) -> orders]}

\* the runs of pages hold each of the N keys on one page, once; every page
\* reports the total N and no error, and the page after the last is empty
PagesPartition(keys, runs) ==
    \A run \in runs :
        LET last == Len(run) - 1 IN
        /\ \A x \in DOMAIN run :
              run[x].err = ErrNone /\ run[x].total = Cardinality(keys)
        /\ run[last + 1].keys = <<>>
        /\ \A key \in keys :
              Cardinality({xy \in (1..last) \X (1..Cardinality(keys)) :
                              /\ xy[2] <= Len(run[xy[1]].keys)
                              /\ run[xy[1]].keys[xy[2]] = key}) = 1

\* C21: with no mutation of the store in between, the pages 1..ceil(N/P) of
\* ListPullRequests for a repository hold each of its N pull requests once,
\* every page reports the total N, and page ceil(N/P)+1 is empty with total
\* N; the same for ListIssues and for ListRepositories.
C21_PagesPartition ==
    \A perPage \in 1..MaxPerPage :
        /\ \A k \in DOMAIN repositories :
              /\ PagesPartition(DOMAIN pullRequests[k], PageRuns("pr", k, perPage))
              /\ PagesPartition(DOMAIN issues[k], PageRuns("iss", k, perPage))
        /\ PagesPartition(DOMAIN repositories, PageRuns("repo", <<>>, perPage))

----------------------------------------------------------------------------
\* a listing of the items of repository k: not-found when k is not tracked
\* and only then; for a tracked k no error and the total N, and nothing on
\* the page when N = 0 or the page is after the last
ListingOfTracked(items, k) ==
    LET N == IF k \in DOMAIN items THEN Cardinality(DOMAIN items[k]) ELSE 0 IN
    \A perPage \in 1..MaxPerPage, order \in ListOrders(items, k) :
        \A page \in 1..(PagesOf(N, perPage) + MaxPage) :
            LET r == CacheListItems(items, k, page, perPage, order) IN
            /\ IsNotFound(r.err) <=> k \notin DOMAIN repositories
            /\ k \in DOMAIN repositories
               => /\ r.err = ErrNone
                  /\ r.total = N
                  /\ (N = 0 \/ page > PagesOf(N, perPage)) => r.items = <<>>
                  /\ page <= PagesOf(N, perPage) => r.items # <<>>

\* C22: ListPullRequests and ListIssues of the store return a not-found
\* error if and only if the repository is not tracked; for a tracked
\* repository without items, and for a page after the last one, they return
\* an empty page, the total, and no error.
C22_NotFoundIffUntracked ==
    qry.pc = "idle"
    => \A k \in RepoKeys : /\ ListingOfTracked(pullRequests, k)
                           /\ ListingOfTracked(issues, k)

\* acme/widgets is tracked with three pull requests and no issue,
\* acme/gadgets is not tracked
C22_Witness ==
    LET A == FullNameOf("acme", "widgets")
        B == FullNameOf("acme", "gadgets")
    IN /\ qry.pc = "idle"
       /\ DOMAIN repositories = {A}
       /\ DOMAIN pullRequests[A] = {1, 2, 3}
       /\ CacheListIssues(A, 1, 1, <<>>) = [err |-> ErrNone, items |-> <<>>, total |-> 0]
       /\ CacheListPullRequests(A, 4, 1, <<1, 2, 3>>)
             = [err |-> ErrNone, items |-> <<>>, total |-> 3]
       /\ IsNotFound(CacheListPullRequests(B, 1, 1, <<>>).err)

----------------------------------------------------------------------------
\* the items of the collection of the request that the store holds for the
\* repositories of `keys`
StoredItems(kind, keys) ==
    UNION {{QueryItems(kind)[k][n] : n \in DOMAIN QueryItems(kind)[k]} :
              k \in keys \cap DOMAIN QueryItems(kind)}

\* the item passes the filter: state and author login equal to the filter's,
\* letter case apart, an empty filter field passing everything
Matches(it, filter) ==
    /\ filter.State = "" \/ Fold(it.State) = Fold(filter.State)
    /\ filter.Author = "" \/ Fold(it.UserLogin) = Fold(filter.Author)

\* the request has returned without error and the repositories are those it
\* found when it began
Answered ==
    /\ qry.pc = "returned"
    /\ qry.result.err = ErrNone
    /\ qry.at = repositories

\* C23: ListPullRequests / ListIssues of the query engine select exactly the
\* items of the scoped repository, or of all tracked repositories when no
\* scope is given, whose state and author login equal the filter's (letter
\* case apart, an empty filter field ignored): the total they report is the
\* number of those items, and every item returned is one of them.
C23_SelectsMatching ==
    Answered
    => LET keys == IF qry.scope = <<>> THEN DOMAIN repositories ELSE {qry.scope}
           matching == {it \in StoredItems(qry.kind, keys) : Matches(it, qry.filter)}
       IN /\ qry.result.pagination.Total = Cardinality(matching)
          /\ \A x \in DOMAIN qry.result.items : qry.result.items[x] \in matching

----------------------------------------------------------------------------
\* the request went through its filter, sort and page stage
Paged == qry.pc = "returned" /\ qry.filter.Page >= 1 /\ qry.filter.PerPage >= 1

\* the least number of pages of perPage items that hold n items
Ceil(n, perPage) ==
    CHOOSE m \in 0..n : m * perPage >= n /\ (m > 0 => (m - 1) * perPage < n)

Min(a, b) == IF a < b THEN a ELSE b

\* C24: for page >= 1 and perPage >= 1 the query engine returns no error,
\* Total = the number of collected items that pass the filter, TotalPages =
\* ceil(Total / perPage), and the items of an ordered arrangement of the
\* filtered items from index (page-1)*perPage up to min(page*perPage, Total):
\* nothing, with the same Total and TotalPages, when the page is after the
\* end.
C24_PageOfFiltered ==
    Paged
    => LET f == qry.filter
           passing == {x \in DOMAIN qry.all : Matches(qry.all[x], f)}
           total == Cardinality(passing)
           start == (f.Page - 1) * f.PerPage
           end == Min(f.Page * f.PerPage, total)
           r == qry.result
       IN /\ r.err = ErrNone
          /\ r.pagination = [Page |-> f.Page, PerPage |-> f.PerPage,
                             Total |-> total,
                             TotalPages |-> Ceil(total, f.PerPage)]
          /\ start >= total => r.items = <<>>
          /\ start < total
             => /\ Len(r.items) = end - start
                /\ \E srt \in [1..total -> {qry.all[x] : x \in passing}] :
                      /\ \A x \in passing : \E y \in 1..total : srt[y] = qry.all[x]
                      /\ Ordered(srt, f.Direction)
                      /\ \A y \in 1..(end - start) : r.items[y] = srt[start + y]

\* page 2 of 2 of three filtered items, two per page
C24_Witness ==
    /\ Paged
    /\ qry.result.pagination = [Page |-> 2, PerPage |-> 2, Total |-> 3,
                                TotalPages |-> 2]
    /\ Len(qry.result.items) = 1

----------------------------------------------------------------------------
\* item a comes strictly before item b in the order asked for: earlier when
\* the direction is "asc", later for every other direction
Precedes(a, b, direction) ==
    IF direction = "asc" THEN a.CreatedAt < b.CreatedAt
    ELSE b.CreatedAt < a.CreatedAt

\* C25: the query engine orders the whole filtered set by creation time
\* before it pages: the items of a page are in non-decreasing order of
\* creation time when the direction is "asc" and in non-increasing order for
\* any other direction, and the item at index p of the query (counted over
\* all pages) has fewer than p filtered items strictly before it and at
\* least p filtered items not after it, so that no item of a page comes
\* later than an item of the next page.
C25_OrderedBeforePaging ==
    Paged
    => LET f == qry.filter
           passing == {x \in DOMAIN qry.all : Matches(qry.all[x], f)}
           start == (f.Page - 1) * f.PerPage
           items == qry.result.items
       IN /\ \A a, b \in DOMAIN items :
                a < b => ~Precedes(items[b], items[a], f.Direction)
          /\ \A y \in DOMAIN items :
                /\ Cardinality({x \in passing :
                       Precedes(qry.all[x], items[y], f.Direction)}) < start + y
                /\ Cardinality({x \in passing :
                       ~Precedes(items[y], qry.all[x], f.Direction)}) >= start + y

\* a page of two items in descending order for the empty direction, and a
\* second page after it
C25_Witness ==
    /\ Paged
    /\ qry.filter.Direction = ""
    /\ qry.filter.Page = 1
    /\ qry.result.pagination.Total = 3
    /\ Len(qry.result.items) = 2
    /\ qry.result.items[1].CreatedAt > qry.result.items[2].CreatedAt

----------------------------------------------------------------------------
\* the scope string has the form owner/name: one "/" between two parts
OwnerNameForm(scope) == Cardinality({x \in DOMAIN scope : scope[x] = "/"}) = 1

\* C26: a request with a scope that is not of the form owner/name returns
\* the invalid-name error, and a request with a scope of that form that
\* names no tracked repository returns the not-found error; either returns
\* no items and leaves the store as it was, and a request whose scope names
\* a tracked repository returns neither error.
C26_ScopeErrors ==
    [][(qry.pc = "idle" /\ qry'.pc # "idle" /\ qry'.scope # <<>>)
       => LET scope == qry'.scope
              failed(err) == /\ qry'.pc = "returned"
                             /\ qry'.result.err = err
                             /\ qry'.result.items = <<>>
          IN /\ UNCHANGED storeVars
             /\ ~OwnerNameForm(scope) => failed("invalid repository name format")
             /\ (OwnerNameForm(scope) /\ scope \notin DOMAIN repositories)
                => failed("repository not found")
             /\ scope \in DOMAIN repositories
                => qry'.pc \in {"listing", "collected"}
      ]_vars

\* acme/gadgets is asked for while only acme/widgets is tracked
C26_Witness ==
    /\ qry.pc = "returned"
    /\ qry.scope = FullNameOf("acme", "gadgets")
    /\ qry.result.err = ErrRepositoryNotFound
    /\ DOMAIN repositories = {FullNameOf("acme", "widgets")}
    /\ DOMAIN pullRequests[FullNameOf("acme", "widgets")] # {}

----------------------------------------------------------------------------
\* the elements of a sequence
Elements(seq) == {seq[x] : x \in DOMAIN seq}

\* C27: when the listing of the items of one repository fails during a
\* request (the repository has been deleted since the repositories were
\* listed), the request goes on: the repository adds nothing to what is
\* collected, the items of a repository whose listing succeeds are all
\* collected, and the request returns without error what it collected of
\* the other repositories.
C27_ListingErrorSkipped ==
    /\ [][(qry.pc = "listing" /\ qry' # qry)
          => LET k == heap[qry.repos[qry.i]].FullName IN
             /\ qry'.pc = IF qry.i = Len(qry.repos) THEN "collected" ELSE "listing"
             /\ qry'.i = qry.i + 1
             /\ k \notin DOMAIN repositories
                => qry'.all = qry.all /\ qry'.failed = qry.failed \cup {qry.i}
             /\ k \in DOMAIN repositories
                => /\ qry'.failed = qry.failed
                   /\ Len(qry'.all) = Len(qry.all)
                                         + Cardinality(StoredItems(qry.kind, {k}))
                   /\ Elements(qry'.all)
                         = Elements(qry.all) \cup StoredItems(qry.kind, {k})
         ]_vars
    /\ [](Paged
          => /\ qry.result.err = ErrNone
             /\ \A x \in qry.failed, it \in Elements(qry.all) :
                   it.RepositoryFullName # heap[qry.repos[x]].FullName
             /\ qry.result.pagination.Total
                   = Cardinality({it \in Elements(qry.all) : Matches(it, qry.filter)}))

\* a request without scope found two repositories, lost one of them to a
\* deletion before it listed it, and returned the items of the other
C27_Witness ==
    /\ Paged
    /\ qry.scope = <<>>
    /\ Len(qry.repos) = 2
    /\ Cardinality(qry.failed) = 1
    /\ qry.result.err = ErrNone
    /\ qry.result.items # <<>>

----------------------------------------------------------------------------
\* the latest of the times, the zero time when there is none after it
Latest(times) == CHOOSE m \in times \cup {ZeroTime} :
                    \A x \in times \cup {ZeroTime} : x <= m

\* the *models.Repository of the tracked repositories
TrackedRecords == {repositories[k] : k \in DOMAIN repositories}

\* C28: GetStatus reports as total the number of tracked repositories and
\* as last_sync the latest last_synced_at of the tracked repositories, the
\* zero time when none is tracked.  The repositories are those tracked when
\* GetStatus lists them; their last_synced_at is read when GetStatus looks
\* for the latest, so when the same repositories are tracked then, the
\* report is the number and the latest time of the repositories tracked at
\* that moment.
C28_StatusTotals ==
    /\ [][(gs.pc = "idle" /\ gs'.pc = "listed")
          => /\ gs'.total = Cardinality(DOMAIN repositories)
             /\ gs'.repos = TrackedRecords
         ]_vars
    /\ [][(gs.pc = "listed" /\ gs'.pc = "idle" /\ gs'.result[1].err = ErrNone)
          => LET r == gs'.result[1] IN
             /\ r.total = gs.total
             /\ r.last_sync = Latest({heap[p].LastSyncedAt : p \in gs.repos})
             /\ gs.repos = TrackedRecords
                => /\ r.total = Cardinality(DOMAIN repositories)
                   /\ r.last_sync = Latest({heap[p].LastSyncedAt :
                                               p \in TrackedRecords})
             /\ gs.repos = {} => r.total = 0 /\ r.last_sync = ZeroTime
         ]_vars

\* GetStatus has reported two tracked repositories whose last_synced_at
\* differ, and the later of the two times
C28_Witness ==
    /\ gs.pc = "idle"
    /\ gs.result # <<>>
    /\ gs.result[1].err = ErrNone
    /\ gs.result[1].total = 2
    /\ Cardinality(TrackedRecords) = 2
    /\ \E p, q \in TrackedRecords :
          /\ heap[p].LastSyncedAt < heap[q].LastSyncedAt
          /\ gs.result[1].last_sync = heap[q].LastSyncedAt

----------------------------------------------------------------------------
\* how many times x occurs in the sequence
Occurrences(seq, x) == Cardinality({i \in DOMAIN seq : seq[i] = x})

\* the two pages hold the same records, each as many times
SameContents(a, b) ==
    /\ Len(a) = Len(b)
    /\ \A x \in Elements(a) \cup Elements(b) :
          Occurrences(a, x) = Occurrences(b, x)

\* the calls made on the Cache and on the file-backed DB alike
BothOps == {"AddRepository", "UpdateRepository", "DeleteRepository",
            "ListRepositories", "AddPullRequest", "UpdatePullRequest",
            "DeletePullRequest", "ListPullRequests", "AddIssue",
            "UpdateIssue", "DeleteIssue", "ListIssues"}

\* C29: after every sequence of Add/Update/Delete/List calls made on the
\* in-memory Cache and on the file-backed DB alike, the last call succeeded
\* on both or failed on both, a listing reported the same total on both,
\* and a page that holds the whole listing held the same records on both.
C29_SameContract ==
    (call.op \in BothOps /\ "db" \in DOMAIN call)
    => /\ (call.err = ErrNone) <=> (call.db.err = ErrNone)
       /\ call.total = call.db.total
       /\ (/\ call.page = 1
           /\ call.total <= call.perPage
           /\ call.db.total <= call.perPage)
          => SameContents(call.items, call.db.items)

----------------------------------------------------------------------------
\* C30: Service.AddRepository called with the full name of a repository
\* that is already tracked returns the tracked record and no error, does
\* not call the external source, dispatches no sync cycle and leaves every
\* collection of the store and every repository record as they were.
C30_TrackedAddReturnsExisting ==
    [][(/\ call = NoCall
        /\ call'.op = "Service.AddRepository"
        /\ call'.fullName \in DOMAIN repositories)
       => /\ call'.err = ErrNone
          /\ call'.repo = repositories[call'.fullName]
          /\ ~call'.fetched
          /\ cyc' = cyc
          /\ storeVars' = storeVars
      ]_vars

\* Service.AddRepository has returned the record of a repository that was
\* tracked before the call, while a sync cycle of it is in flight
C30_Witness ==
    /\ call.op = "Service.AddRepository"
    /\ ~call.fetched
    /\ call.err = ErrNone
    /\ call.fullName \in DOMAIN repositories
    /\ call.repo = repositories[call.fullName]
    /\ \E t \in Cycles : InFlight(t) /\ KeyOf(t) = call.fullName

----------------------------------------------------------------------------
\* C31: Service.AddRepository given a name that is not of the form
\* owner/name, or whose fetch from the external source fails, returns an
\* error and no record, leaves the store and the status map as they were,
\* and dispatches no sync cycle.
C31_RejectedAddChangesNothing ==
    [][(/\ call = NoCall
        /\ call'.op = "Service.AddRepository"
        /\ ~OwnerNameForm(call'.fullName) \/ call'.ghErr)
       => /\ call'.err # ErrNone
          /\ call'.repo = 0
          /\ ~OwnerNameForm(call'.fullName) => ~call'.fetched
          /\ storeVars' = storeVars
          /\ syncStatus' = syncStatus
          /\ cyc' = cyc
      ]_vars

\* the fetch of an untracked acme/gadgets has failed while acme/widgets is
\* tracked and a cycle is in flight
C31_Witness ==
    /\ call.op = "Service.AddRepository"
    /\ call.ghErr
    /\ call.fullName = FullNameOf("acme", "gadgets")
    /\ call.fullName \notin DOMAIN repositories
    /\ FullNameOf("acme", "widgets") \in DOMAIN repositories
    /\ \E t \in Cycles : InFlight(t)

\* Service.AddRepository has refused the name "widgets"
C31_WitnessForm ==
    /\ call.op = "Service.AddRepository"
    /\ ~OwnerNameForm(call.fullName)
    /\ call.err = "invalid repository name format"

----------------------------------------------------------------------------
\* the requests to add the repository of key k
AddsOf(k) == {c \in AddCallers : adds[c].fullName = k}

\* the requests of key k whose insert succeeded
InsertsOf(k) == {c \in AddsOf(k) : adds[c].inserted}

\* C32: of the concurrent Service.AddRepository requests for one untracked
\* full name, at most one performs the insert and at most one sync cycle is
\* dispatched; the record in the store is the one that request inserted and
\* it is the only record of that name; once all of them have returned and
\* the external source has answered at least one, exactly one has inserted.
C32_OneInsertPerName ==
    \A k \in RepoKeys :
       /\ Cardinality(InsertsOf(k)) <= 1
       /\ Cardinality({t \in Dispatched : KeyOf(t) = k}) <= 1
       /\ Cardinality({p \in DOMAIN heap : heap[p].FullName = k}) <= 1
       /\ \A c \in InsertsOf(k) :
             /\ k \in DOMAIN repositories
             /\ repositories[k] = adds[c].repo
             /\ cyc[adds[c].cycle].pc # "unused"
       /\ (/\ AddsOf(k) # {}
           /\ \A c \in AddsOf(k) : adds[c].pc = "returned"
           /\ \E c \in AddsOf(k) :
                 adds[c].err # "failed to get repository from GitHub")
          => /\ Cardinality(InsertsOf(k)) = 1
             /\ k \in DOMAIN repositories
             /\ \A c \in AddsOf(k) \ InsertsOf(k) :
                   \/ adds[c].err # ErrNone /\ adds[c].repo = 0
                   \/ adds[c].err = ErrNone /\ adds[c].repo = repositories[k]

\* two requests for acme/widgets were both past the lookup before either
\* inserted: one has inserted, the other was refused by the store
C32_Witness ==
    \E c, d \in AddCallers :
       /\ adds[c].fullName = FullNameOf("acme", "widgets")
       /\ adds[d].fullName = FullNameOf("acme", "widgets")
       /\ adds[c].inserted
       /\ adds[d].pc = "returned"
       /\ adds[d].err = "failed to add repository to cache"

----------------------------------------------------------------------------
\* C33: after Service.AddRepository("owner/name") has returned success,
\* GetRepository(owner, name) succeeds, the cycle the request dispatched
\* does not end with the repository not found, and what the cycle has
\* fetched as pull requests is stored under owner/name once its
\* pull-request stage is done, whatever the external source reported.
C33_AddedIsFound ==
    \A c \in AddCallers :
       (adds[c].pc = "returned" /\ adds[c].inserted)
       => LET k == FullNameOf(adds[c].owner, adds[c].name)
              t == adds[c].cycle
          IN /\ CacheGetRepository(adds[c].owner, adds[c].name).err = ErrNone
             /\ cyc[t].pc # "errRepo"
             /\ cyc[t].prDone
                => \A x \in DOMAIN cyc[t].seenPRs :
                      /\ k \in DOMAIN pullRequests
                      /\ cyc[t].seenPRs[x].Number \in DOMAIN pullRequests[k]

----------------------------------------------------------------------------
\* C34: while a sync cycle of a repository is in flight, after it has
\* marked the repository syncing and before its deferred function has run,
\* the status map holds an entry for the repository.
C34_InFlightHasStatus ==
    \A t \in Cycles :
       (InFlight(t) /\ cyc[t].marked) => KeyOf(t) \in DOMAIN syncStatus

----------------------------------------------------------------------------
\* C35: a repository that is not tracked, because it was deleted and not
\* added again, stays unreadable whatever the sync cycles still in flight
\* for it do: the store returns neither its record nor any of its pull
\* requests, issues or label associations, and holds none of them.
C35_DeletedStaysGone ==
    \A k \in RepoKeys : k \notin DOMAIN repositories => Gone(k)

\* a cycle that ran alone had a store operation refused after its
\* repository was deleted, and is still in flight
C35_Witness ==
    \E t \in Cycles :
       /\ InFlight(t)
       /\ ~cyc[t].overlapped
       /\ cyc[t].repo # 0
       /\ KeyOf(t) \notin DOMAIN repositories
       /\ cyc[t].skipped # {}

----------------------------------------------------------------------------
\* the attributes of a repository record other than last_synced_at
OtherAttributes == {"Owner", "Name", "FullName", "Description"}

\* C36: the UpdateRepository at the end of a sync cycle, when it succeeds,
\* leaves every attribute other than last_synced_at of the record the store
\* holds for the repository as it was immediately before.
C36_UpdateKeepsAttributes ==
    [][\A t \in Cycles :
          (/\ cyc[t].pc = "update"
           /\ cyc'[t].pc = "deferred"
           /\ cyc'[t].err = ErrNone)
          => \A f \in OtherAttributes :
                heap'[repositories'[KeyOf(t)]][f]
                   = heap[repositories[KeyOf(t)]][f]
      ]_vars

----------------------------------------------------------------------------
\* C37: a status GetStatus reports never has a syncing count greater than
\* its total count of tracked repositories.
C37_SyncingWithinTotal ==
    (gs.result # <<>> /\ gs.result[1].err = ErrNone)
    => gs.result[1].syncing <= gs.result[1].total

----------------------------------------------------------------------------
\* C38: when every call to the external source returns, every dispatched
\* cycle reaches its end and every status request that has listed the
\* repositories returns; syncMutex and the store lock are never held at the
\* same time; and when no cycle is in flight no status entry has the value
\* "syncing".
C38_CyclesEndAndLeaveNoSyncing ==
    /\ \A t \in Cycles : InFlight(t) ~> (cyc[t].pc = "done")
    /\ (gs.pc = "listed") ~> (gs.pc = "idle")
    /\ [](syncMutex = Unlocked \/ mu = MuFree)
    /\ []((\A t \in Cycles : ~InFlight(t))
          => \A k \in DOMAIN syncStatus : syncStatus[k] # StrSyncing)

\* both cycles have ended, one of them with an error, a status request
\* counted an entry while they ran, and no entry is left
C38_Witness ==
    /\ \A t \in Cycles : cyc[t].pc = "done"
    /\ \E t \in Cycles : cyc[t].outcome = "ok"
    /\ \E t \in Cycles : cyc[t].outcome = "repo"
    /\ gs.pc = "idle"
    /\ gs.result # <<>>
    /\ gs.result[1].err = ErrNone
    /\ gs.result[1].syncing = 1
    /\ syncStatus = EmptyMap

----------------------------------------------------------------------------
\* The page and the page size of the list calls: the HTTP handlers read them
\* from the query string, the direct CLI client gets them as the integers of
\* its flags (ListRepositories) or as the texts of a parameter map
\* (ListPullRequests).  A text is a sequence of characters.

Digits == <<"0", "1", "2", "3", "4", "5", "6", "7", "8", "9">>
IsDigit(c) == \E d \in DOMAIN Digits : Digits[d] = c
DigitOf(c) == (CHOOSE d \in DOMAIN Digits : Digits[d] = c) - 1

RECURSIVE ParseDigits(_, _)
ParseDigits(s, n) ==
    IF s = <<>> THEN n ELSE ParseDigits(Tail(s), 10 * n + DigitOf(Head(s)))

\* strconv.Atoi: an optional sign and decimal digits, an error otherwise
Atoi(s) ==
    LET signed == s # <<>> /\ Head(s) \in {"+", "-"}
        body == IF signed THEN Tail(s) ELSE s
    IN IF body = <<>> \/ \E x \in DOMAIN body : ~IsDigit(body[x])
       THEN [err |-> TRUE, n |-> 0]
       ELSE [err |-> FALSE,
             n |-> IF signed /\ Head(s) = "-" THEN 0 - ParseDigits(body, 0)
                   ELSE ParseDigits(body, 0)]

\* getPaginationParams: the defaults 1 and 30 unless the text is a number
\* above 0 (and, for per_page, not above 100)
getPaginationParams(pageStr, perPageStr) ==
    LET p == Atoi(pageStr)
        pp == Atoi(perPageStr)
    IN [page |-> IF pageStr # <<>> /\ ~p.err /\ p.n > 0 THEN p.n ELSE 1,
        perPage |-> IF perPageStr # <<>> /\ ~pp.err /\ pp.n > 0 /\ pp.n <= 100
                    THEN pp.n ELSE 30]

\* Client.ListPullRequests, "Parse pagination": as above, with no upper
\* limit of per_page
ClientPagination(pageStr, perPageStr) ==
    LET p == Atoi(pageStr)
        pp == Atoi(perPageStr)
    IN [page |-> IF pageStr # <<>> /\ ~p.err /\ p.n > 0 THEN p.n ELSE 1,
        perPage |-> IF perPageStr # <<>> /\ ~pp.err /\ pp.n > 0
                    THEN pp.n ELSE 30]

PanicNone == "none"
PanicSlice == "slice bounds out of range"
PanicDivide == "integer divide by zero"

\* Cache.ListRepositories and the TotalPages its caller computes: the run
\* time panic, if any
ListRepositoriesPanic(page, perPage) ==
    LET total == Cardinality(DOMAIN repositories)
        start == (page - 1) * perPage
        end == IF start + perPage > total THEN total ELSE start + perPage
    IN IF total # 0 /\ start < total /\ ~(0 <= start /\ start <= end)
       THEN PanicSlice
       ELSE IF perPage = 0 THEN PanicDivide
       ELSE PanicNone

\* the pull requests of the tracked repositories
AllPullRequests ==
    UNION {{<<k, n>> : n \in DOMAIN pullRequests[k]} :
             k \in DOMAIN pullRequests \cap DOMAIN repositories}

\* Service.ListPullRequests, "Apply pagination" on `total` items: the run
\* time panic, if any
QueryPagePanic(total, page, perPage) ==
    LET start == (page - 1) * perPage
        end == IF start + perPage > total THEN total ELSE start + perPage
    IN IF start >= total
       THEN IF perPage = 0 THEN PanicDivide ELSE PanicNone
       ELSE IF perPage = 0 THEN PanicDivide
       ELSE IF ~(0 <= start /\ start <= end) THEN PanicSlice
       ELSE PanicNone

\* a list call into the service: who made it, the page and the page size it
\* carries, the slice start the list operation computes, and how it ends
ListCalled(op, layer, page, perPage, panic) ==
    [op |-> op, layer |-> layer, page |-> page, perPage |-> perPage,
     start |-> (page - 1) * perPage, panic |-> panic]

\* Handler.ListRepositories
HandlerListRepositories(pageStr, perPageStr) ==
    /\ mu.w = Unlocked
    /\ LET p == getPaginationParams(pageStr, perPageStr) IN
       call' = ListCalled("ListRepositories", "http", p.page, p.perPage,
                          ListRepositoriesPanic(p.page, p.perPage))
    /\ UNCHANGED <<storeVars, serviceVars>>

\* Handler.ListPullRequests with no filter but the page
HandlerListPullRequests(pageStr, perPageStr) ==
    /\ mu.w = Unlocked
    /\ LET p == getPaginationParams(pageStr, perPageStr) IN
       call' = ListCalled("ListPullRequests", "http", p.page, p.perPage,
                          QueryPagePanic(Cardinality(AllPullRequests),
                                         p.page, p.perPage))
    /\ UNCHANGED <<storeVars, serviceVars>>

\* Client.ListRepositories(page, perPage) of the direct CLI client
ClientListRepositories(page, perPage) ==
    /\ mu.w = Unlocked
    /\ call' = ListCalled("ListRepositories", "cli", page, perPage,
                          ListRepositoriesPanic(page, perPage))
    /\ UNCHANGED <<storeVars, serviceVars>>

\* Client.ListPullRequests(params) of the direct CLI client
ClientListPullRequests(pageStr, perPageStr) ==
    /\ mu.w = Unlocked
    /\ LET p == ClientPagination(pageStr, perPageStr) IN
       call' = ListCalled("ListPullRequests", "cli", p.page, p.perPage,
                          QueryPagePanic(Cardinality(AllPullRequests),
                                         p.page, p.perPage))
    /\ UNCHANGED <<storeVars, serviceVars>>

\* the texts of the page and per_page parameters, and the integers of the
\* --page and --per-page flags
PageTexts == {<<>>, <<"x">>, <<"0">>, <<"-", "1">>, <<"1">>, <<"2">>}
PerPageTexts == PageTexts \cup {<<"1", "0", "0">>, <<"1", "0", "1">>}
FlagInts == {-1, 0, 1, 2}

\* The list calls of the HTTP handlers and of the direct CLI client over a
\* store that is being filled.
NextPaging ==
    \/ \E o \in Owners, n \in Names : NewRepository(o, n)
    \/ \E repo \in DOMAIN heap : StoreAddRepository(repo)
    \/ \E pr \in StorePullRequests : StoreAddPullRequest(pr)
    \/ \E pageStr \in PageTexts, perPageStr \in PerPageTexts :
          HandlerListRepositories(pageStr, perPageStr)
    \/ \E pageStr \in PageTexts, perPageStr \in PerPageTexts :
          HandlerListPullRequests(pageStr, perPageStr)
    \/ \E page \in FlagInts, perPage \in FlagInts :
          ClientListRepositories(page, perPage)
    \/ \E pageStr \in PageTexts, perPageStr \in PerPageTexts :
          ClientListPullRequests(pageStr, perPageStr)

SpecPaging == Init /\ [][NextPaging]_vars

\* the list calls of one layer
ListCallOf(layer) ==
    /\ call.op \in {"ListRepositories", "ListPullRequests"}
    /\ "layer" \in DOMAIN call
    /\ call.layer = layer

\* C39: every list call of the HTTP handlers and of the direct CLI client
\* carries a page of at least 1 and a page size of at least 1 (at most 100
\* from the HTTP handlers), and no list operation computes a negative slice
\* start or divides by a page size of zero.
C39_ListCallsInRange ==
    (ListCallOf("http") \/ ListCallOf("cli"))
    => /\ call.page >= 1
       /\ call.perPage >= 1
       /\ ListCallOf("http") => call.perPage <= 100
       /\ call.start >= 0
       /\ call.panic = PanicNone

\* C39 for the calls of the HTTP handlers and for Client.ListPullRequests
C39_ParsedCallsInRange ==
    (ListCallOf("http") \/ (ListCallOf("cli") /\ call.op = "ListPullRequests"))
    => /\ call.page >= 1
       /\ call.perPage >= 1
       /\ ListCallOf("http") => call.perPage <= 100
       /\ call.start >= 0
       /\ call.panic = PanicNone

----------------------------------------------------------------------------
\* The GitHub client's truncate.  A string is the sequence of its bytes:
\* len(s) counts bytes and s[:n] takes bytes.

\* the Go expression s[:n]
Prefix(s, n) == SubSeq(s, 1, n)

Ellipsis == <<".", ".", ".">>

\* were the dots appended to the first maxLen bytes
truncateNoRoom(s, maxLen) ==
    IF Len(s) <= maxLen THEN s
    ELSE IF maxLen <= 3 THEN Prefix(s, maxLen)
    ELSE Prefix(s, maxLen) \o Ellipsis

\* truncate(s, maxLen)
truncate(s, maxLen) ==
    IF Len(s) <= maxLen THEN s
    ELSE IF maxLen <= 3 THEN Prefix(s, maxLen)
    ELSE Prefix(s, maxLen - 3) \o Ellipsis

\* s[:maxLen] with a negative maxLen panics
truncatePanics(s, maxLen) == Len(s) > maxLen /\ maxLen < 0

\* the strings and the lengths truncate is called with
Bytes == {"a", "."}
Strings == UNION {[1..n -> Bytes] : n \in 0..MaxStr}
Lengths == -1..(MaxStr + 1)

InitTruncate ==
    /\ repositories = EmptyMap
    /\ heap = <<>>
    /\ pullRequests = EmptyMap
    /\ issues = EmptyMap
    /\ labels = {}
    /\ prLabels = EmptyMap
    /\ issueLabels = EmptyMap
    /\ mu = MuFree
    /\ syncStatus = EmptyMap
    /\ syncMutex = Unlocked
    /\ clock = 1
    /\ cyc = [t \in Cycles |-> NoCycle]
    /\ gs = GsIdle
    /\ qry = QIdle
    /\ fdb = NewDB
    /\ adds = [c \in AddCallers |-> AddIdle]
    /\ \E s \in Strings, maxLen \in Lengths :
          call = [op |-> "input", s |-> s, maxLen |-> maxLen]

Truncate ==
    /\ call.op = "input"
    /\ call' = [op |-> "truncate", s |-> call.s, maxLen |-> call.maxLen,
                panic |-> truncatePanics(call.s, call.maxLen),
                out |-> IF truncatePanics(call.s, call.maxLen) THEN <<>>
                        ELSE truncate(call.s, call.maxLen)]
    /\ UNCHANGED <<storeVars, serviceVars>>

NextTruncate == Truncate

SpecTruncate == InitTruncate /\ [][NextTruncate]_vars

\* C40: truncate(s, maxLen) returns s when len(s) <= maxLen, the empty
\* string and the string of exactly maxLen bytes included; otherwise, for
\* maxLen > 3, it returns maxLen bytes: the first maxLen - 3 bytes of s
\* followed by "...".
C40_TruncateKeepsOrCuts ==
    (call.op = "truncate")
    => /\ Len(call.s) <= call.maxLen
          => ~call.panic /\ call.out = call.s
       /\ (Len(call.s) > call.maxLen /\ call.maxLen > 3)
          => /\ ~call.panic
             /\ Len(call.out) = call.maxLen
             /\ \A x \in 1..(call.maxLen - 3) : call.out[x] = call.s[x]
             /\ \A x \in (call.maxLen - 2)..call.maxLen : call.out[x] = "."

\* a string of five bytes was cut to four: one byte and the dots
C40_Witness ==
    /\ call.op = "truncate"
    /\ call.s = <<"a", "a", "a", "a", "a">>
    /\ call.maxLen = 4
    /\ call.out = <<"a", ".", ".", ".">>

============================================================================
